---------------------------- MODULE Spec2Model ----------------------------
(***************************************************************************)
(* Model of the Mermaid MCP app: the server's classification, validation   *)
(* and backend selection (server.ts), the render effect of the             *)
(* MermaidRenderer component, the App's session state and the              *)
(* DragSelector's drag-to-select gesture.                                  *)
(*                                                                         *)
(* JavaScript strings are sequences of one-character strings, so that      *)
(* trim, split, toLowerCase and startsWith are computed, not assumed.      *)
(* null / undefined is the one-element sequence NULL.                      *)
(***************************************************************************)
EXTENDS Integers, Sequences, FiniteSets, TLC

\* ------------------------------------------------------------------------
\* Strings
\* ------------------------------------------------------------------------

\* null and undefined (never a sequence of characters: its element has
\* more than one letter).
NULL == <<"null">>

\* Characters String.prototype.trim() strips (the ones the inputs use).
WhiteSpace == {" ", "\t", "\n", "\r"}

UpperAlpha ==
    <<"A","B","C","D","E","F","G","H","I","J","K","L","M",
      "N","O","P","Q","R","S","T","U","V","W","X","Y","Z">>
LowerAlpha ==
    <<"a","b","c","d","e","f","g","h","i","j","k","l","m",
      "n","o","p","q","r","s","t","u","v","w","x","y","z">>

SetMin(S) == CHOOSE x \in S : \A y \in S : x <= y
SetMax(S) == CHOOSE x \in S : \A y \in S : x >= y

\* s.trim()
Trim(s) ==
    LET keep == {i \in 1..Len(s) : s[i] \notin WhiteSpace}
    IN  IF keep = {} THEN <<>> ELSE SubSeq(s, SetMin(keep), SetMax(keep))

\* s.split("\n")[0]
SplitFirst(s) ==
    LET nl == {i \in 1..Len(s) : s[i] = "\n"}
    IN  IF nl = {} THEN s ELSE SubSeq(s, 1, SetMin(nl) - 1)

LowerChar(c) ==
    IF \E i \in 1..26 : UpperAlpha[i] = c
    THEN LowerAlpha[CHOOSE i \in 1..26 : UpperAlpha[i] = c]
    ELSE c

\* s.toLowerCase()
ToLowerCase(s) == [i \in 1..Len(s) |-> LowerChar(s[i])]

\* s.startsWith(p)
StartsWith(s, p) == Len(p) <= Len(s) /\ SubSeq(s, 1, Len(p)) = p

\* truthiness of a string-or-null value
Truthy(v) == v # NULL /\ v # <<>>

\* v ?? d
OrElse(v, d) == IF v = NULL THEN d ELSE v

\* ------------------------------------------------------------------------
\* server.ts: string literals
\* ------------------------------------------------------------------------

kw_flowchart ==
    <<"f","l","o","w","c","h","a","r","t">>
kw_graph ==
    <<"g","r","a","p","h">>
kw_sequencediagram ==
    <<"s","e","q","u","e","n","c","e","d","i","a","g","r","a","m">>
kw_classdiagram ==
    <<"c","l","a","s","s","d","i","a","g","r","a","m">>
kw_statediagram ==
    <<"s","t","a","t","e","d","i","a","g","r","a","m">>
kw_erdiagram ==
    <<"e","r","d","i","a","g","r","a","m">>
kw_gantt ==
    <<"g","a","n","t","t">>
kw_pie ==
    <<"p","i","e">>
kw_gitgraph ==
    <<"g","i","t","g","r","a","p","h">>
kw_mindmap ==
    <<"m","i","n","d","m","a","p">>
kw_timeline ==
    <<"t","i","m","e","l","i","n","e">>
kw_journey ==
    <<"j","o","u","r","n","e","y">>
kw_quadrantchart ==
    <<"q","u","a","d","r","a","n","t","c","h","a","r","t">>
kw_requirementdiagram ==
    <<"r","e","q","u","i","r","e","m","e","n","t","d","i","a","g","r","a",
      "m">>
kw_c4context ==
    <<"c","4","c","o","n","t","e","x","t">>
kw_c4container ==
    <<"c","4","c","o","n","t","a","i","n","e","r">>
kw_c4component ==
    <<"c","4","c","o","m","p","o","n","e","n","t">>
kw_c4dynamic ==
    <<"c","4","d","y","n","a","m","i","c">>
kw_c4deployment ==
    <<"c","4","d","e","p","l","o","y","m","e","n","t">>
kw_sankey ==
    <<"s","a","n","k","e","y">>
kw_xychart ==
    <<"x","y","c","h","a","r","t">>
kw_block ==
    <<"b","l","o","c","k">>
kw_packet ==
    <<"p","a","c","k","e","t">>
kw_kanban ==
    <<"k","a","n","b","a","n">>
kw_architecture ==
    <<"a","r","c","h","i","t","e","c","t","u","r","e">>

\* the keyword table without "graph", which detectDiagramType looks for
KNOWN_DIAGRAM_KEYWORDS_NoGraph ==
    <<kw_flowchart, kw_sequencediagram, kw_classdiagram,
      kw_statediagram, kw_erdiagram, kw_gantt, kw_pie,
      kw_gitgraph, kw_mindmap, kw_timeline, kw_journey,
      kw_quadrantchart, kw_requirementdiagram, kw_c4context, kw_c4container,
      kw_c4component, kw_c4dynamic, kw_c4deployment, kw_sankey,
      kw_xychart, kw_block, kw_packet, kw_kanban,
      kw_architecture>>

\* the keyword table of validateMermaidSyntax
KNOWN_DIAGRAM_KEYWORDS ==
    <<kw_flowchart, kw_graph, kw_sequencediagram, kw_classdiagram,
      kw_statediagram, kw_erdiagram, kw_gantt, kw_pie,
      kw_gitgraph, kw_mindmap, kw_timeline, kw_journey,
      kw_quadrantchart, kw_requirementdiagram, kw_c4context, kw_c4container,
      kw_c4component, kw_c4dynamic, kw_c4deployment, kw_sankey,
      kw_xychart, kw_block, kw_packet, kw_kanban,
      kw_architecture>>

\* diagram type tags
T_flowchart ==
    <<"f","l","o","w","c","h","a","r","t">>
T_flowchart_v2 ==
    <<"f","l","o","w","c","h","a","r","t","-","v","2">>
T_graph ==
    <<"g","r","a","p","h">>
T_stateDiagram ==
    <<"s","t","a","t","e","D","i","a","g","r","a","m">>
T_stateDiagram_v2 ==
    <<"s","t","a","t","e","D","i","a","g","r","a","m","-","v","2">>
T_sequenceDiagram ==
    <<"s","e","q","u","e","n","c","e","D","i","a","g","r","a","m">>
T_classDiagram ==
    <<"c","l","a","s","s","D","i","a","g","r","a","m">>
T_erDiagram ==
    <<"e","r","D","i","a","g","r","a","m">>
T_gantt ==
    <<"g","a","n","t","t">>
T_pie ==
    <<"p","i","e">>
T_gitGraph ==
    <<"g","i","t","G","r","a","p","h">>
T_mindmap ==
    <<"m","i","n","d","m","a","p">>
T_timeline ==
    <<"t","i","m","e","l","i","n","e">>
T_journey ==
    <<"j","o","u","r","n","e","y">>
T_quadrantChart ==
    <<"q","u","a","d","r","a","n","t","C","h","a","r","t">>
T_requirementDiagram ==
    <<"r","e","q","u","i","r","e","m","e","n","t","D","i","a","g","r","a",
      "m">>
T_c4 ==
    <<"c","4">>
T_sankey ==
    <<"s","a","n","k","e","y">>
T_xyChart ==
    <<"x","y","C","h","a","r","t">>
T_block ==
    <<"b","l","o","c","k">>
T_packet ==
    <<"p","a","c","k","e","t">>
T_kanban ==
    <<"k","a","n","b","a","n">>
T_architecture ==
    <<"a","r","c","h","i","t","e","c","t","u","r","e">>
T_unknown ==
    <<"u","n","k","n","o","w","n">>

\* the support set spelled like the keywords (all lower case)
BEAUTIFUL_MERMAID_TYPES_Lowered ==
    {kw_flowchart, kw_graph, kw_statediagram, kw_sequencediagram,
     kw_classdiagram, kw_erdiagram}

\* Diagram types that beautiful-mermaid supports
BEAUTIFUL_MERMAID_TYPES ==
    {T_flowchart, T_flowchart_v2, T_graph, T_stateDiagram, T_stateDiagram_v2,
     T_sequenceDiagram, T_classDiagram, T_erDiagram}

Str_EmptyMarkup ==
    <<"E","m","p","t","y"," ","d","i","a","g","r","a","m"," ","m","a","r",
      "k","u","p">>
Str_UnrecognisedHead ==
    <<"U","n","r","e","c","o","g","n","i","s","e","d"," ","d","i","a","g",
      "r","a","m"," ","t","y","p","e","."," ","F","i","r","s","t"," ","l",
      "i","n","e"," ","m","u","s","t"," ","s","t","a","r","t"," ","w","i",
      "t","h"," ","a"," ","d","i","a","g","r","a","m"," ","k","e","y","w",
      "o","r","d"," ","(","e",".","g","."," ","f","l","o","w","c","h","a",
      "r","t",","," ","s","e","q","u","e","n","c","e","D","i","a","g","r",
      "a","m",","," ","c","l","a","s","s","D","i","a","g","r","a","m",",",
      " ","e","r","D","i","a","g","r","a","m",","," ","g","a","n","t","t",
      ","," ","U+2026",")","."," ","G","o","t",":"," ","\"">>
Str_Quote ==
    <<"\"">>
Str_SyntaxErrorHead ==
    <<"M","e","r","m","a","i","d"," ","s","y","n","t","a","x"," ","e","r",
      "r","o","r",":"," ">>
Str_PleaseFix ==
    <<"\n","\n","P","l","e","a","s","e"," ","f","i","x"," ","t","h","e"," ",
      "m","a","r","k","u","p"," ","a","n","d"," ","t","r","y"," ","a","g",
      "a","i","n",".","\n","\n","M","a","r","k","u","p",":","\n">>
Str_Rendered ==
    <<"R","e","n","d","e","r","e","d"," ">>
Str_OpenParen ==
    <<" ","(">>
Str_DiagramComma ==
    <<" ","d","i","a","g","r","a","m",","," ">>
Str_DiagramParen ==
    <<" ","d","i","a","g","r","a","m"," ","(">>
Str_CloseParen ==
    <<")">>
Str_Invalid ==
    <<"I","n","v","a","l","i","d",":"," ">>
Str_Valid ==
    <<"V","a","l","i","d"," ">>
Str_Diagram ==
    <<" ","d","i","a","g","r","a","m">>
Str_beautiful_mermaid ==
    <<"b","e","a","u","t","i","f","u","l","-","m","e","r","m","a","i","d">>
Str_mermaid_js ==
    <<"m","e","r","m","a","i","d",".","j","s">>
Str_mermaid ==
    <<"m","e","r","m","a","i","d">>
Str_none ==
    <<"n","o","n","e">>

\* ------------------------------------------------------------------------
\* server.ts: classification, validation, tool handlers
\* ------------------------------------------------------------------------

\* markup.trim().split("\n")[0].trim()
FirstLineOf(markup) == Trim(SplitFirst(Trim(markup)))

\* detectDiagramType taking the first line of the untrimmed markup
detectDiagramType_NoOuterTrim(markup) ==
    LET firstLine == ToLowerCase(Trim(SplitFirst(markup)))
    IN  IF StartsWith(firstLine, kw_flowchart) \/ StartsWith(firstLine, kw_graph)
        THEN T_flowchart
        ELSE IF StartsWith(firstLine, kw_pie) THEN T_pie
        ELSE IF StartsWith(firstLine, kw_gantt) THEN T_gantt
        ELSE T_unknown

\* detectDiagramType looking for "graph" anywhere in the first line
detectDiagramType_GraphAnywhere(markup) ==
    LET firstLine == ToLowerCase(FirstLineOf(markup))
        sw(kw) == StartsWith(firstLine, kw)
        graphAt(i) == SubSeq(firstLine, i + 1, i + Len(kw_graph)) = kw_graph
    IN  IF sw(kw_flowchart)
           \/ \E i \in 0..(Len(firstLine) - Len(kw_graph)) : graphAt(i)
        THEN T_flowchart
        ELSE IF sw(kw_sequencediagram) THEN T_sequenceDiagram
        ELSE IF sw(kw_classdiagram) THEN T_classDiagram
        ELSE IF sw(kw_statediagram) THEN T_stateDiagram
        ELSE IF sw(kw_erdiagram) THEN T_erDiagram
        ELSE IF sw(kw_gantt) THEN T_gantt
        ELSE IF sw(kw_pie) THEN T_pie
        ELSE IF sw(kw_gitgraph) THEN T_gitGraph
        ELSE IF sw(kw_mindmap) THEN T_mindmap
        ELSE IF sw(kw_timeline) THEN T_timeline
        ELSE IF sw(kw_journey) THEN T_journey
        ELSE IF sw(kw_quadrantchart) THEN T_quadrantChart
        ELSE IF sw(kw_requirementdiagram) THEN T_requirementDiagram
        ELSE IF sw(kw_c4context) \/ sw(kw_c4container) \/ sw(kw_c4component)
                \/ sw(kw_c4dynamic) \/ sw(kw_c4deployment) THEN T_c4
        ELSE IF sw(kw_sankey) THEN T_sankey
        ELSE IF sw(kw_xychart) THEN T_xyChart
        ELSE IF sw(kw_block) THEN T_block
        ELSE IF sw(kw_packet) THEN T_packet
        ELSE IF sw(kw_kanban) THEN T_kanban
        ELSE IF sw(kw_architecture) THEN T_architecture
        ELSE T_unknown

\* Detect the Mermaid diagram type from markup text.
detectDiagramType(markup) ==
    LET firstLine == ToLowerCase(FirstLineOf(markup))
        sw(kw) == StartsWith(firstLine, kw)
    IN  IF sw(kw_flowchart) \/ sw(kw_graph) THEN T_flowchart
        ELSE IF sw(kw_sequencediagram) THEN T_sequenceDiagram
        ELSE IF sw(kw_classdiagram) THEN T_classDiagram
        ELSE IF sw(kw_statediagram) THEN T_stateDiagram
        ELSE IF sw(kw_erdiagram) THEN T_erDiagram
        ELSE IF sw(kw_gantt) THEN T_gantt
        ELSE IF sw(kw_pie) THEN T_pie
        ELSE IF sw(kw_gitgraph) THEN T_gitGraph
        ELSE IF sw(kw_mindmap) THEN T_mindmap
        ELSE IF sw(kw_timeline) THEN T_timeline
        ELSE IF sw(kw_journey) THEN T_journey
        ELSE IF sw(kw_quadrantchart) THEN T_quadrantChart
        ELSE IF sw(kw_requirementdiagram) THEN T_requirementDiagram
        ELSE IF sw(kw_c4context) \/ sw(kw_c4container) \/ sw(kw_c4component)
                \/ sw(kw_c4dynamic) \/ sw(kw_c4deployment) THEN T_c4
        ELSE IF sw(kw_sankey) THEN T_sankey
        ELSE IF sw(kw_xychart) THEN T_xyChart
        ELSE IF sw(kw_block) THEN T_block
        ELSE IF sw(kw_packet) THEN T_packet
        ELSE IF sw(kw_kanban) THEN T_kanban
        ELSE IF sw(kw_architecture) THEN T_architecture
        ELSE T_unknown

\* validateMermaidSyntax matching the first line without lower-casing it
validateMermaidSyntax_CaseSensitive(markup) ==
    LET trimmed == Trim(markup)
        firstLine == Trim(SplitFirst(trimmed))
        recognised ==
            \E k \in 1..Len(KNOWN_DIAGRAM_KEYWORDS) :
                StartsWith(firstLine, KNOWN_DIAGRAM_KEYWORDS[k])
    IN  IF trimmed = <<>> THEN Str_EmptyMarkup
        ELSE IF ~recognised
             THEN Str_UnrecognisedHead \o Trim(SplitFirst(trimmed)) \o Str_Quote
        ELSE NULL

\* validateMermaidSyntax echoing the lower-cased line it matched against
validateMermaidSyntax_EchoLowered(markup) ==
    LET trimmed == Trim(markup)
        firstLine == ToLowerCase(Trim(SplitFirst(trimmed)))
        recognised ==
            \E k \in 1..Len(KNOWN_DIAGRAM_KEYWORDS) :
                StartsWith(firstLine, KNOWN_DIAGRAM_KEYWORDS[k])
    IN  IF trimmed = <<>> THEN Str_EmptyMarkup
        ELSE IF ~recognised
             THEN Str_UnrecognisedHead \o firstLine \o Str_Quote
        ELSE NULL

\* Lightweight server-side syntax validation: NULL or the error message.
validateMermaidSyntax(markup) ==
    LET trimmed == Trim(markup)
        firstLine == ToLowerCase(Trim(SplitFirst(trimmed)))
        recognised ==
            \E k \in 1..Len(KNOWN_DIAGRAM_KEYWORDS) :
                StartsWith(firstLine, KNOWN_DIAGRAM_KEYWORDS[k])
    IN  IF trimmed = <<>> THEN Str_EmptyMarkup
        ELSE IF ~recognised
             THEN Str_UnrecognisedHead \o Trim(SplitFirst(trimmed)) \o Str_Quote
        ELSE NULL

\* renderer: useBeautiful ? "beautiful-mermaid" : "mermaid"
RendererFor(diagramType) ==
    IF diagramType \in BEAUTIFUL_MERMAID_TYPES
    THEN Str_beautiful_mermaid ELSE Str_mermaid

\* the engine name of the summary line
EngineLabel(diagramType) ==
    IF diagramType \in BEAUTIFUL_MERMAID_TYPES
    THEN Str_beautiful_mermaid ELSE Str_mermaid_js

\* renderMermaidDiagram reporting the selected engine also on rejection
renderMermaidDiagram_RendererOnReject(args) ==
    LET diagramType == detectDiagramType(args.markup)
        syntaxError == validateMermaidSyntax(args.markup)
    IN  [isError |-> Truthy(syntaxError),
         text |-> IF Truthy(syntaxError)
                  THEN Str_SyntaxErrorHead \o syntaxError \o Str_PleaseFix
                       \o args.markup
                  ELSE Str_Rendered \o diagramType \o Str_DiagramParen
                       \o EngineLabel(diagramType) \o Str_CloseParen,
         structuredContent |->
             [markup |-> args.markup,
              title |-> OrElse(args.title, <<>>),
              syntaxError |-> syntaxError,
              diagramType |-> diagramType,
              renderer |-> RendererFor(diagramType)]]

\* renderMermaidDiagram returning the rejection without the error mark
renderMermaidDiagram_NoErrorMark(args) ==
    LET diagramType == detectDiagramType(args.markup)
        syntaxError == validateMermaidSyntax(args.markup)
    IN  [isError |-> FALSE,
         text |-> IF Truthy(syntaxError)
                  THEN Str_SyntaxErrorHead \o syntaxError \o Str_PleaseFix
                       \o args.markup
                  ELSE Str_Rendered \o diagramType \o Str_DiagramParen
                       \o EngineLabel(diagramType) \o Str_CloseParen,
         structuredContent |->
             [markup |-> args.markup,
              title |-> OrElse(args.title, <<>>),
              syntaxError |-> syntaxError,
              diagramType |-> diagramType,
              renderer |-> IF Truthy(syntaxError) THEN Str_none
                           ELSE RendererFor(diagramType)]]

\* The renderMermaidDiagram tool handler: args = [markup, title], title
\* NULL when the request carries none.
renderMermaidDiagram(args) ==
    LET markup == args.markup
        title == args.title
        diagramType == detectDiagramType(markup)
        syntaxError == validateMermaidSyntax(markup)
    IN  IF Truthy(syntaxError)
        THEN [isError |-> TRUE,
              text |-> Str_SyntaxErrorHead \o syntaxError \o Str_PleaseFix
                       \o markup,
              structuredContent |->
                  [markup |-> markup,
                   title |-> OrElse(title, <<>>),
                   syntaxError |-> syntaxError,
                   diagramType |-> diagramType,
                   renderer |-> Str_none]]
        ELSE [isError |-> FALSE,
              text |-> IF Truthy(title)
                       THEN Str_Rendered \o Str_Quote \o title \o Str_Quote
                            \o Str_OpenParen \o diagramType
                            \o Str_DiagramComma \o EngineLabel(diagramType)
                            \o Str_CloseParen
                       ELSE Str_Rendered \o diagramType \o Str_DiagramParen
                            \o EngineLabel(diagramType) \o Str_CloseParen,
              structuredContent |->
                  [markup |-> markup,
                   title |-> OrElse(title, <<>>),
                   syntaxError |-> NULL,
                   diagramType |-> diagramType,
                   renderer |-> RendererFor(diagramType)]]

\* The validateMermaidSyntax tool handler: args = [markup].
validateTool(args) ==
    LET syntaxError == validateMermaidSyntax(args.markup)
        diagramType == detectDiagramType(args.markup)
    IN  [isError |-> FALSE,
         text |-> IF Truthy(syntaxError)
                  THEN Str_Invalid \o syntaxError
                  ELSE Str_Valid \o diagramType \o Str_Diagram,
         structuredContent |->
             [valid |-> (syntaxError = NULL),
              error |-> syntaxError,
              diagramType |-> diagramType,
              renderer |-> RendererFor(diagramType)]]

\* ------------------------------------------------------------------------
\* Tool inputs
\* ------------------------------------------------------------------------

\* longest run of white space put before the first line of a markup
MaxPad == 2

SeqsUpTo(S, n) == UNION {[1..k -> S] : k \in 0..n}

PadChars == {" ", "\n"}
Pads == SeqsUpTo(PadChars, MaxPad)

\* first words: every keyword in its usual spelling, case variants, and words
\* that are no keyword
Heads ==
    {<<>>,
     <<"f","l","o","w","c","h","a","r","t">>,
     <<"F","l","o","w","c","h","a","r","t">>,
     <<"F","L","O","W","C","H","A","R","T">>,
     <<"g","r","a","p","h">>,
     <<"G","r","a","p","h">>,
     <<"g","r","a","p","h","i","c">>,
     <<"s","e","q","u","e","n","c","e","D","i","a","g","r","a","m">>,
     <<"c","l","a","s","s","D","i","a","g","r","a","m">>,
     <<"s","t","a","t","e","D","i","a","g","r","a","m">>,
     <<"s","t","a","t","e","D","i","a","g","r","a","m","-","v","2">>,
     <<"e","r","D","i","a","g","r","a","m">>,
     <<"g","a","n","t","t">>,
     <<"p","i","e">>,
     <<"P","I","E">>,
     <<"p","i","e","s">>,
     <<"g","i","t","G","r","a","p","h">>,
     <<"m","i","n","d","m","a","p">>,
     <<"t","i","m","e","l","i","n","e">>,
     <<"j","o","u","r","n","e","y">>,
     <<"q","u","a","d","r","a","n","t","C","h","a","r","t">>,
     <<"r","e","q","u","i","r","e","m","e","n","t","D","i","a","g","r","a","m">>,
     <<"C","4","C","o","n","t","e","x","t">>,
     <<"C","4","C","o","n","t","a","i","n","e","r">>,
     <<"C","4","C","o","m","p","o","n","e","n","t">>,
     <<"C","4","D","y","n","a","m","i","c">>,
     <<"C","4","D","e","p","l","o","y","m","e","n","t">>,
     <<"s","a","n","k","e","y","-","b","e","t","a">>,
     <<"x","y","c","h","a","r","t","-","b","e","t","a">>,
     <<"b","l","o","c","k","-","b","e","t","a">>,
     <<"p","a","c","k","e","t","-","b","e","t","a">>,
     <<"k","a","n","b","a","n">>,
     <<"a","r","c","h","i","t","e","c","t","u","r","e","-","b","e","t","a">>,
     <<"f","o","o","b","a","r">>,
     <<"F","o","o","B","a","r">>,
     <<"f","l","o","w">>,
     <<"g","r","a","p">>,
     <<"p","i">>,
     <<"c","4">>,
     <<"d","i","g","r","a","p","h">>,
     <<"%","%">>,
     <<"B","l","o","c","k">>}
\* what follows the first word: the rest of the line and later lines
Tails ==
    {<<>>,
     <<" ","T","D","\n"," "," ","A","-","-",">","B">>,
     <<"\n"," "," ","t","i","t","l","e"," ","X">>,
     <<" ","T","D">>,
     <<"\n"," "," ","A","-","-",">","B">>,
     <<" ","\n">>,
     <<"\n","g","a","n","t","t">>,
     <<"\t","\n","\n","s","o","m","e"," ","t","e","x","t">>,
     <<" ","L","R"," "," ">>}

Markups == {p \o h \o t : p \in Pads, h \in Heads, t \in Tails}

Titles == {NULL, <<>>, <<"M","y"," ","T">>}

\* ------------------------------------------------------------------------
\* DragSelector.tsx: the DOM it reads, labels, kinds, the selection
\* ------------------------------------------------------------------------

\* s.includes(sub)
Includes(s, sub) ==
    \E i \in 0..(Len(s) - Len(sub)) : SubSeq(s, i + 1, i + Len(sub)) = sub

Str_node == <<"n","o","d","e">>
Str_edgePath == <<"e","d","g","e","P","a","t","h">>
Str_edgeLabel == <<"e","d","g","e","L","a","b","e","l">>
Str_cluster == <<"c","l","u","s","t","e","r">>
Str_edge == <<"e","d","g","e">>
Str_label == <<"l","a","b","e","l">>
Str_unknown == <<"u","n","k","n","o","w","n">>
Str_flowchartDash == <<"f","l","o","w","c","h","a","r","t","-">>
Str_state == <<"s","t","a","t","e">>
Str_classIdDash == <<"c","l","a","s","s","I","d","-">>
Str_entityDash == <<"e","n","t","i","t","y","-">>
Str_unlabeled == <<"u","n","l","a","b","e","l","e","d">>
Str_g == <<"g">>

\* What className.toString() gives for an element of the SVG namespace:
\* className is an SVGAnimatedString there, which has no stringifier.
Str_SVGAnimatedString == <<"[","o","b","j","e","c","t"," ","S","V","G","A","n","i","m","a","t","e","d","S","t","r","i","n","g","]">>

\* word characters of a regular expression (\w, for \b)
WordChars ==
    {UpperAlpha[i] : i \in 1..26} \cup {LowerAlpha[i] : i \in 1..26}
    \cup {"0","1","2","3","4","5","6","7","8","9","_"}

\* /\bw\b/i.test(s), for a word w of word characters
TestWord(s, w) ==
    LET ls == ToLowerCase(s)
        lw == ToLowerCase(w)
    IN  \E i \in 1..(Len(s) - Len(w) + 1) :
            /\ SubSeq(ls, i, i + Len(w) - 1) = lw
            /\ i = 1 \/ s[i - 1] \notin WordChars
            /\ i + Len(w) - 1 = Len(s) \/ s[i + Len(w)] \notin WordChars

RECURSIVE ClassList(_)
\* the class names of a class attribute (split at spaces)
ClassList(attr) ==
    LET sp == {i \in 1..Len(attr) : attr[i] = " "}
    IN  IF attr = <<>> THEN {}
        ELSE IF sp = {} THEN {attr}
        ELSE (IF SetMin(sp) = 1 THEN {} ELSE {SubSeq(attr, 1, SetMin(sp) - 1)})
             \cup ClassList(SubSeq(attr, SetMin(sp) + 1, Len(attr)))

\* An element of the diagram area, in document order:
\*   inSvg  it is a descendant of an svg element
\*   tag    tagName          id     the id ("" when it has none)
\*   class  the class attribute
\*   box    getBoundingClientRect()
\*   text   textContent of its first descendant matching
\*          "text, .nodeLabel, .edgeLabel, foreignObject span", NULL if none
\*   aria   getAttribute("aria-label"), NULL if absent
\*   title  textContent of its first title descendant, NULL if none

\* el.className?.toString?.() ?? ""
ClassNameString(el) ==
    IF el.inSvg THEN Str_SVGAnimatedString ELSE el.class

\* Extract a readable label from an SVG element.
extractLabel(el) ==
    IF el.text # NULL /\ Truthy(Trim(el.text))
    THEN Trim(el.text)
    ELSE OrElse(el.aria,
                OrElse(IF el.title = NULL THEN NULL ELSE Trim(el.title),
                       OrElse(el.id, Str_unlabeled)))

\* Classify an SVG element type.
classifyElement(el) ==
    LET classes == ClassNameString(el)
    IN  IF TestWord(classes, Str_node) THEN Str_node
        ELSE IF TestWord(classes, Str_edge) \/ TestWord(classes, Str_edgePath)
             THEN Str_edge
        ELSE IF TestWord(classes, Str_label) \/ TestWord(classes, Str_edgeLabel)
             THEN Str_label
        ELSE IF /\ ToLowerCase(el.tag) = Str_g
                /\ \/ StartsWith(el.id, Str_flowchartDash)
                   \/ StartsWith(el.id, Str_state)
             THEN Str_node
        ELSE IF ToLowerCase(el.tag) = Str_g /\ Includes(el.id, Str_edge)
             THEN Str_edge
        ELSE Str_unknown

\* one of the selectors of container.querySelectorAll(...)
IsCandidate(el) ==
    /\ el.inSvg
    /\ el.tag = Str_g
    /\ \/ Str_node \in ClassList(el.class)
       \/ Str_edgePath \in ClassList(el.class)
       \/ Str_edgeLabel \in ClassList(el.class)
       \/ Str_cluster \in ClassList(el.class)
       \/ StartsWith(el.id, Str_flowchartDash)
       \/ StartsWith(el.id, Str_state)
       \/ StartsWith(el.id, Str_classIdDash)
       \/ StartsWith(el.id, Str_entityDash)

\* container.querySelectorAll(...): the matching elements in document order,
\* each once
QuerySelectorAll(elements) == SelectSeq(elements, IsCandidate)

\* Minimum drag distance to count as selection
MinDragDistance == 5

Abs(n) == IF n < 0 THEN -n ELSE n
Min2(a, b) == IF a < b THEN a ELSE b
Max2(a, b) == IF a > b THEN a ELSE b

\* getBoundingClientRect() of the overlay
OverlayRect == [left |-> 10, top |-> 20]

\* the overlaps test with <= for <: touching boxes intersect
Overlaps_Touching(elRect, selectionBounds) ==
    /\ elRect.left <= selectionBounds.right
    /\ elRect.right >= selectionBounds.left
    /\ elRect.top <= selectionBounds.bottom
    /\ elRect.bottom >= selectionBounds.top

\* Check if element intersects selection rectangle
Overlaps(elRect, selectionBounds) ==
    /\ elRect.left < selectionBounds.right
    /\ elRect.right > selectionBounds.left
    /\ elRect.top < selectionBounds.bottom
    /\ elRect.bottom > selectionBounds.top

\* the selection bounds of a drag rectangle, in client coordinates
SelectionBounds(rect) ==
    LET x1 == Min2(rect.startX, rect.currentX)
        y1 == Min2(rect.startY, rect.currentY)
        x2 == Max2(rect.startX, rect.currentX)
        y2 == Max2(rect.startY, rect.currentY)
    IN  [left |-> OverlayRect.left + x1,
         top |-> OverlayRect.top + y1,
         right |-> OverlayRect.left + x2,
         bottom |-> OverlayRect.top + y2]

\* the threshold test with || for &&: a drag along one axis is a click
BelowThreshold_EitherAxis(rect) ==
    LET x1 == Min2(rect.startX, rect.currentX)
        y1 == Min2(rect.startY, rect.currentY)
        x2 == Max2(rect.startX, rect.currentX)
        y2 == Max2(rect.startY, rect.currentY)
    IN  Abs(x2 - x1) < MinDragDistance \/ Abs(y2 - y1) < MinDragDistance

\* Math.abs(x2 - x1) < 5 && Math.abs(y2 - y1) < 5
BelowThreshold(rect) ==
    LET x1 == Min2(rect.startX, rect.currentX)
        y1 == Min2(rect.startY, rect.currentY)
        x2 == Max2(rect.startX, rect.currentX)
        y2 == Max2(rect.startY, rect.currentY)
    IN  Abs(x2 - x1) < MinDragDistance /\ Abs(y2 - y1) < MinDragDistance

RECURSIVE CollectSelected_NoSeen(_, _, _, _)
\* the loop without the seenIds test
CollectSelected_NoSeen(els, selectionBounds, selected, seenIds) ==
    IF els = <<>> THEN selected
    ELSE LET el == Head(els)
         IN  IF Overlaps(el.box, selectionBounds) /\ Truthy(el.id)
             THEN CollectSelected_NoSeen(
                      Tail(els), selectionBounds,
                      Append(selected, [id |-> el.id,
                                        label |-> extractLabel(el),
                                        type |-> classifyElement(el)]),
                      seenIds \cup {el.id})
             ELSE CollectSelected_NoSeen(Tail(els), selectionBounds,
                                         selected, seenIds)

RECURSIVE CollectSelected(_, _, _, _)
\* svgElements.forEach(...): selected and seenIds as the loop leaves them
CollectSelected(els, selectionBounds, selected, seenIds) ==
    IF els = <<>> THEN selected
    ELSE LET el == Head(els)
         IN  IF /\ Overlaps(el.box, selectionBounds)
                /\ Truthy(el.id)
                /\ el.id \notin seenIds
             THEN CollectSelected(
                      Tail(els), selectionBounds,
                      Append(selected, [id |-> el.id,
                                        label |-> extractLabel(el),
                                        type |-> classifyElement(el)]),
                      seenIds \cup {el.id})
             ELSE CollectSelected(Tail(els), selectionBounds,
                                  selected, seenIds)

\* ------------------------------------------------------------------------
\* Rendered trees and mouse positions
\* ------------------------------------------------------------------------

Box(l, t, r, b) == [left |-> l, top |-> t, right |-> r, bottom |-> b]

El_nodeA ==
    [inSvg |-> TRUE, tag |-> Str_g, id |-> <<"f","l","o","w","c","h","a","r","t","-","A","-","0">>,
     class |-> <<"n","o","d","e"," ","d","e","f","a","u","l","t">>, box |-> Box(12, 21, 14, 23),
     text |-> <<" ","A"," ">>, aria |-> NULL, title |-> NULL]
\* a second group carrying the id of El_nodeA
El_nodeA2 ==
    [inSvg |-> TRUE, tag |-> Str_g, id |-> <<"f","l","o","w","c","h","a","r","t","-","A","-","0">>,
     class |-> <<>>, box |-> Box(14, 22, 19, 26),
     text |-> <<"A","2">>, aria |-> NULL, title |-> NULL]
\* an edge label group without an id
El_edgeLabel ==
    [inSvg |-> TRUE, tag |-> Str_g, id |-> <<>>,
     class |-> <<"e","d","g","e","L","a","b","e","l">>, box |-> Box(10, 20, 19, 25),
     text |-> <<"y","e","s">>, aria |-> NULL, title |-> NULL]
El_state ==
    [inSvg |-> TRUE, tag |-> Str_g, id |-> <<"s","t","a","t","e","-","s","1">>,
     class |-> <<>>, box |-> Box(15, 23, 19, 25),
     text |-> NULL, aria |-> <<"S","1">>, title |-> NULL]
\* a cluster left of and above the overlay, touching its corner
El_cluster ==
    [inSvg |-> TRUE, tag |-> Str_g, id |-> <<"s","u","b","G","r","a","p","h","0">>,
     class |-> <<"c","l","u","s","t","e","r">>, box |-> Box(5, 10, 10, 20),
     text |-> NULL, aria |-> NULL, title |-> <<"G","r","o","u","p">>]
\* no group: matched by no selector
El_rect ==
    [inSvg |-> TRUE, tag |-> <<"r","e","c","t">>, id |-> <<"f","l","o","w","c","h","a","r","t","-","r">>,
     class |-> <<"n","o","d","e">>, box |-> Box(10, 20, 19, 25),
     text |-> NULL, aria |-> NULL, title |-> NULL]

ElementPool ==
    {El_nodeA, El_nodeA2, El_edgeLabel, El_state, El_cluster, El_rect}

\* most elements of a rendered tree
MaxElements == 2

Trees == SeqsUpTo(ElementPool, MaxElements)

\* clientX / clientY of mouse events over the overlay
ClientXs == {OverlayRect.left + d : d \in {0, 3, 5, 9}}
ClientYs == {OverlayRect.top + d : d \in {0, 3, 5}}
\* where drags start
DownXs == {OverlayRect.left + d : d \in {0, 5}}
DownYs == {OverlayRect.top + d : d \in {0, 3}}
\* e.button: 0 is the left button
Buttons == {0, 2}

\* ------------------------------------------------------------------------
\* The rendering engines (outside the repository): what they return
\* ------------------------------------------------------------------------

\* markup the view is given
M_graphAB == <<"g","r","a","p","h"," ","T","D","\n"," "," ","A","-","-",">","B">>
M_pie == <<"p","i","e","\n"," "," ","\"","a","\""," ",":"," ","1">>
M_foobar == <<"f","o","o","b","a","r","\n","s","o","m","e"," ","t","e","x","t">>
ViewMarkups == {M_graphAB, M_pie, M_foobar}

\* the elements of the SVG an engine returns for a markup
EngineTree(markup) ==
    IF markup = M_graphAB THEN <<El_nodeA, El_state>>
    ELSE <<El_nodeA2, El_edgeLabel>>

\* messages of the errors an engine throws (err.message)
EngineMessages == {<<"P","a","r","s","e"," ","e","r","r","o","r"," ","o","n"," ","l","i","n","e"," ","2">>}

\* most engine calls in one behaviour
MaxRenders == 3

\* ------------------------------------------------------------------------
\* State
\* ------------------------------------------------------------------------

VARIABLES
    \* server.ts
    request,            \* the tool call being answered: <<>> or [tool, args]
    response,           \* the handler's result for it: <<>> or <<result>>
    remembered,         \* an earlier call and its result, for comparison:
                        \* <<>> or <<[request, result, otherSince]>>
    \* App.tsx
    diagramData,        \* <<>> (null) or <<MermaidToolResult>>
    selectedElements,   \* sequence of SelectedElement
    theme,              \* "light" or "dark"
    dragSelectEnabled,
    \* MermaidRenderer.tsx
    error,              \* the error state: NULL or the message
    svg,                \* container.innerHTML: <<>> or <<the SVG installed>>
    tree,               \* the elements of that SVG, in document order
    highlighted,        \* positions in tree carrying class mermaid-selected
    inflight,           \* the render() calls awaiting their engine
    nextRid,            \* number of the next render() call
    latest,             \* the render() call of the latest request, 0 if it
                        \* started none
    outcome,            \* how the engine call of the latest request ended
    \* DragSelector.tsx
    isDragging,         \* isDragging.current
    dragRect,           \* <<>> (null) or <<DragRect>>
    gesture,            \* how the last gesture ended, and its rectangle
    \* the host
    contextSent,        \* the text last sent by updateModelContext: <<>> or
                        \* <<text>>
    hostDisplayMode,    \* hostContext?.displayMode: <<>> or <<mode>>
    \* App.tsx, display mode
    isFullscreen,
    displayRequests     \* the toggleFullscreen calls: [id, mode, flag, state]

serverVars == <<request, response, remembered>>
appVars == <<diagramData, selectedElements, theme, dragSelectEnabled>>
rendererVars == <<error, svg, tree, highlighted, inflight, nextRid, latest, outcome>>
dragVars == <<isDragging, dragRect, gesture>>
displayVars == <<hostDisplayMode, isFullscreen, displayRequests>>
hostVars == <<contextSent, displayVars>>
vars == <<serverVars, appVars, rendererVars, dragVars, hostVars>>

\* no display mode known from the host, inline, no toggle made
DisplayIdle ==
    /\ hostDisplayMode = <<>>
    /\ isFullscreen = FALSE
    /\ displayRequests = {}

\* ------------------------------------------------------------------------
\* The view: App, MermaidRenderer, DragSelector
\* ------------------------------------------------------------------------

\* {!diagramData.syntaxError && (...)}: the diagram area is rendered
DiagramAreaShown(data) == data # <<>> /\ ~Truthy(data[1].syntaxError)

\* {dragSelectEnabled && <DragSelector/>} inside the diagram area
DragSelectorShown(data, enabled) == DiagramAreaShown(data) /\ enabled

\* the dependencies of the render effect (uniqueId never changes)
RenderDeps(data, th) ==
    <<data[1].markup, data[1].diagramType, data[1].renderer, th>>

\* the cleanup of the render effect without its assignment
Cancel_Forgotten(r) == r

\* the cleanup of the render effect: cancelled = true
Cancel(r) == [r EXCEPT !.cancelled = TRUE]

\* the container a render() call captured has left the document
Detach(r) == [r EXCEPT !.detached = TRUE]

\* containerRef.current.querySelector(`#${CSS.escape(id)}`): the position
\* of the first element with that id, 0 if none
QueryById(elements, id) ==
    LET hits == {i \in 1..Len(elements) : elements[i].id = id}
    IN  IF hits = {} THEN 0 ELSE SetMin(hits)

\* the highlight effect: the elements left with class mermaid-selected
HighlightEffect(elements, selection) ==
    {QueryById(elements, selection[k].id) : k \in 1..Len(selection)} \ {0}

\* staleSeen: an older render() call resolved while this one was the latest
NoOutcome == [state |-> "pending", staleSeen |-> FALSE, message |-> NULL]

\* a view that mounts the renderer and starts render() for every payload
Commit_NoGate(newData, newSelection, selectionSet, newTheme) ==
    LET was == diagramData # <<>>
        now == newData # <<>>
        stays == was /\ now
        depsChanged ==
            stays /\ RenderDeps(diagramData, theme) # RenderDeps(newData, newTheme)
        \* a MermaidRenderer mounted by this commit starts with error null
        err == IF stays THEN error ELSE NULL
        \* the container div is rendered only while error is falsy
        hasContainer == now /\ ~Truthy(err)
        effectRuns == now /\ (~was \/ depsChanged)
        starts ==
            effectRuns /\ hasContainer
        cleaned ==
            IF was /\ ~now THEN {Detach(Cancel(r)) : r \in inflight}
            ELSE IF depsChanged THEN {Cancel(r) : r \in inflight}
            ELSE inflight
        newTree == IF stays THEN tree ELSE <<>>
    IN  /\ starts => nextRid <= MaxRenders
        /\ diagramData' = newData
        /\ selectedElements' = newSelection
        /\ theme' = newTheme
        /\ error' = IF starts THEN NULL ELSE err
        /\ svg' = IF stays THEN svg ELSE <<>>
        /\ tree' = newTree
        /\ highlighted' =
              IF hasContainer /\ (selectionSet \/ ~was)
              THEN HighlightEffect(newTree, newSelection)
              ELSE IF stays THEN highlighted ELSE {}
        /\ inflight' =
              IF starts
              THEN cleaned \cup {[rid |-> nextRid,
                                  markup |-> newData[1].markup,
                                  renderer |-> newData[1].renderer,
                                  theme |-> newTheme,
                                  cancelled |-> FALSE,
                                  detached |-> FALSE]}
              ELSE cleaned
        /\ nextRid' = IF starts THEN nextRid + 1 ELSE nextRid
        /\ latest' = IF starts THEN nextRid
                     ELSE IF effectRuns \/ (was /\ ~now) THEN 0
                     ELSE latest
        /\ outcome' = IF starts \/ effectRuns \/ (was /\ ~now)
                      THEN NoOutcome
                      ELSE outcome

\* React commits the App with a new payload, selection and theme, and runs
\* the effects of MermaidRenderer. selectionSet: setSelectedElements was
\* called (the array is a new one, so the highlight effect runs).
Commit(newData, newSelection, selectionSet, newTheme) ==
    LET was == DiagramAreaShown(diagramData)
        now == DiagramAreaShown(newData)
        stays == was /\ now
        depsChanged ==
            stays /\ RenderDeps(diagramData, theme) # RenderDeps(newData, newTheme)
        \* a MermaidRenderer mounted by this commit starts with error null
        err == IF stays THEN error ELSE NULL
        \* the container div is rendered only while error is falsy
        hasContainer == now /\ ~Truthy(err)
        effectRuns == now /\ (~was \/ depsChanged)
        starts ==
            effectRuns /\ hasContainer /\ newData[1].renderer # Str_none
        cleaned ==
            IF was /\ ~now THEN {Detach(Cancel(r)) : r \in inflight}
            ELSE IF depsChanged THEN {Cancel(r) : r \in inflight}
            ELSE inflight
        newTree == IF stays THEN tree ELSE <<>>
    IN  /\ starts => nextRid <= MaxRenders
        /\ diagramData' = newData
        /\ selectedElements' = newSelection
        /\ theme' = newTheme
        /\ error' = IF starts THEN NULL ELSE err
        /\ svg' = IF stays THEN svg ELSE <<>>
        /\ tree' = newTree
        /\ highlighted' =
              IF hasContainer /\ (selectionSet \/ ~was)
              THEN HighlightEffect(newTree, newSelection)
              ELSE IF stays THEN highlighted ELSE {}
        /\ inflight' =
              IF starts
              THEN cleaned \cup {[rid |-> nextRid,
                                  markup |-> newData[1].markup,
                                  renderer |-> newData[1].renderer,
                                  theme |-> newTheme,
                                  cancelled |-> FALSE,
                                  detached |-> FALSE]}
              ELSE cleaned
        /\ nextRid' = IF starts THEN nextRid + 1 ELSE nextRid
        /\ latest' = IF starts THEN nextRid
                     ELSE IF effectRuns \/ (was /\ ~now) THEN 0
                     ELSE latest
        /\ outcome' = IF starts \/ effectRuns \/ (was /\ ~now)
                      THEN NoOutcome
                      ELSE outcome

\* no rectangle: the gesture was no drag of the left button
NoBounds == [left |-> 0, top |-> 0, right |-> 0, bottom |-> 0]

\* the DragSelector is unmounted or mounted afresh: its state is lost
DragSelectorReset(newData, newEnabled) ==
    IF DragSelectorShown(diagramData, dragSelectEnabled)
       /\ DragSelectorShown(newData, newEnabled)
    THEN UNCHANGED <<isDragging, dragRect, gesture>>
    ELSE /\ isDragging' = FALSE
         /\ dragRect' = <<>>
         /\ gesture' = [kind |-> "none", bounds |-> NoBounds]

\* a handler that clears the selection on every tool result
handleToolResult_ClearsAlways(result) ==
    LET data == result.structuredContent
    IN  IF "markup" \in DOMAIN data
        THEN /\ Commit(<<data>>, <<>>, TRUE, theme)
             /\ DragSelectorReset(<<data>>, dragSelectEnabled)
             /\ UNCHANGED dragSelectEnabled
        ELSE /\ Commit(diagramData, <<>>, TRUE, theme)
             /\ UNCHANGED <<dragSelectEnabled, dragVars>>

\* a handler that keeps the selection when a payload arrives
handleToolResult_KeepsSelection(result) ==
    LET data == result.structuredContent
    IN  IF "markup" \in DOMAIN data
        THEN /\ Commit(<<data>>, selectedElements, FALSE, theme)
             /\ DragSelectorReset(<<data>>, dragSelectEnabled)
             /\ UNCHANGED dragSelectEnabled
        ELSE UNCHANGED <<appVars, rendererVars, dragVars>>

\* App.handleToolResult: a tool result arrives from the host
handleToolResult(result) ==
    LET data == result.structuredContent
    IN  IF "markup" \in DOMAIN data
        THEN /\ Commit(<<data>>, <<>>, TRUE, theme)
             /\ DragSelectorReset(<<data>>, dragSelectEnabled)
             /\ UNCHANGED dragSelectEnabled
        ELSE UNCHANGED <<appVars, rendererVars, dragVars>>

\* the results of the tools for the markup the view is given
RenderResults ==
    {renderMermaidDiagram([markup |-> m, title |-> NULL]) : m \in ViewMarkups}
ValidateResults == {validateTool([markup |-> m]) : m \in ViewMarkups}

\* the result of a renderMermaidDiagram call reaches the view
RenderResultArrives ==
    \E result \in RenderResults :
        /\ handleToolResult(result)
        /\ UNCHANGED <<serverVars, hostVars>>

\* the result of a validateMermaidSyntax call reaches the view
ValidateResultArrives ==
    \E result \in ValidateResults :
        /\ handleToolResult(result)
        /\ UNCHANGED <<serverVars, hostVars>>

\* app.ontoolresult: the host hands the answered call's result to the view,
\* which completes the call
ontoolresult ==
    /\ request # <<>>
    /\ response # <<>>
    /\ handleToolResult(response[1])
    /\ request' = <<>>
    /\ UNCHANGED <<response, remembered, hostVars>>

\* useDocumentTheme(): the host changes the theme
ThemeChanges ==
    /\ diagramData # <<>>
    /\ Commit(diagramData, selectedElements, FALSE,
              IF theme = "light" THEN "dark" ELSE "light")
    /\ UNCHANGED <<dragSelectEnabled, dragVars, serverVars, hostVars>>

\* Toolbar.onToggleDragSelect
ToggleDragSelect ==
    /\ diagramData # <<>>
    /\ dragSelectEnabled' = ~dragSelectEnabled
    /\ DragSelectorReset(diagramData, ~dragSelectEnabled)
    /\ UNCHANGED <<diagramData, selectedElements, theme, rendererVars,
                   serverVars, hostVars>>

\* Toolbar.onClearSelection
ClearSelection ==
    /\ diagramData # <<>>
    /\ Commit(diagramData, <<>>, TRUE, theme)
    /\ UNCHANGED <<dragSelectEnabled, dragVars, serverVars, hostVars>>

RECURSIVE JoinLines(_)
\* lines.join("\n")
JoinLines(lines) ==
    IF lines = <<>> THEN <<>>
    ELSE IF Len(lines) = 1 THEN lines[1]
    ELSE lines[1] \o <<"\n">> \o JoinLines(Tail(lines))

Str_SelectedHead == <<"S","e","l","e","c","t","e","d"," ","d","i","a","g","r","a","m"," ","e","l","e","m","e","n","t","s",":","\n">>
Str_ColonSpace == <<":"," ">>
Str_SpaceParen == <<" ","(">>

\* `${el.type}: ${el.label} (${el.id})`
SummaryLine(el) ==
    el.type \o Str_ColonSpace \o el.label \o Str_SpaceParen \o el.id
        \o Str_CloseParen

\* a summary that lists the ids only
addSelectionToContext_IdsOnly ==
    /\ diagramData # <<>>
    /\ IF Len(selectedElements) = 0
       THEN UNCHANGED contextSent
       ELSE contextSent' =
              <<Str_SelectedHead
                \o JoinLines([k \in 1..Len(selectedElements) |->
                                 selectedElements[k].id])>>
    /\ UNCHANGED <<serverVars, appVars, rendererVars, dragVars, displayVars>>

\* App.addSelectionToContext: the operator presses "add to context"
addSelectionToContext ==
    /\ diagramData # <<>>
    /\ IF Len(selectedElements) = 0
       THEN UNCHANGED contextSent
       ELSE contextSent' =
              <<Str_SelectedHead
                \o JoinLines([k \in 1..Len(selectedElements) |->
                                 SummaryLine(selectedElements[k])])>>
    /\ UNCHANGED <<serverVars, appVars, rendererVars, dragVars, displayVars>>

\* if (!cancelled): a render() call may touch the container and the state
MayInstall(r) == ~r.cancelled

\* the engine call of render() call r resolves with an SVG
RenderSucceeds(r) ==
    /\ r \in inflight
    /\ inflight' = inflight \ {r}
    /\ outcome' = IF r.rid = latest
                  THEN [outcome EXCEPT !.state = "ok"]
                  ELSE [outcome EXCEPT !.staleSeen = (latest # 0)]
    /\ IF MayInstall(r) /\ ~r.detached
       THEN /\ svg' = <<[rid |-> r.rid, markup |-> r.markup,
                         renderer |-> r.renderer, theme |-> r.theme]>>
            /\ tree' = EngineTree(r.markup)
            /\ highlighted' = {}
       ELSE UNCHANGED <<svg, tree, highlighted>>
    /\ UNCHANGED <<error, nextRid, latest, appVars, dragVars, serverVars, hostVars>>

\* a render() that calls the engine once more after it threw
RenderFails_Retries(r, message) ==
    /\ r \in inflight
    /\ outcome' = IF r.rid = latest
                  THEN [outcome EXCEPT !.state = "failed",
                                       !.message = message]
                  ELSE [outcome EXCEPT !.staleSeen = (latest # 0)]
    /\ IF MayInstall(r) /\ ~r.detached
       THEN /\ error' = message
            /\ svg' = <<>>
            /\ tree' = <<>>
            /\ highlighted' = {}
       ELSE UNCHANGED <<error, svg, tree, highlighted>>
    /\ IF MayInstall(r) /\ nextRid <= MaxRenders
       THEN /\ inflight' = (inflight \ {r}) \cup {[r EXCEPT !.rid = nextRid]}
            /\ nextRid' = nextRid + 1
       ELSE /\ inflight' = inflight \ {r}
            /\ UNCHANGED nextRid
    /\ UNCHANGED <<latest, appVars, dragVars, serverVars, hostVars>>

\* the engine call of render() call r throws: setError, and the error text
\* replaces the container
RenderFails(r, message) ==
    /\ r \in inflight
    /\ inflight' = inflight \ {r}
    /\ outcome' = IF r.rid = latest
                  THEN [outcome EXCEPT !.state = "failed",
                                       !.message = message]
                  ELSE [outcome EXCEPT !.staleSeen = (latest # 0)]
    /\ IF MayInstall(r) /\ ~r.detached
       THEN /\ error' = message
            /\ svg' = <<>>
            /\ tree' = <<>>
            /\ highlighted' = {}
       ELSE UNCHANGED <<error, svg, tree, highlighted>>
    /\ UNCHANGED <<nextRid, latest, appVars, dragVars, serverVars, hostVars>>

RenderResolves ==
    \E r \in inflight :
        \/ RenderSucceeds(r)
        \/ \E message \in EngineMessages : RenderFails(r, message)

\* DragSelector.handleMouseDown
handleMouseDown(button, clientX, clientY) ==
    /\ DragSelectorShown(diagramData, dragSelectEnabled)
    /\ IF button # 0
       THEN UNCHANGED <<isDragging, dragRect, gesture>>
       ELSE /\ isDragging' = TRUE
            /\ dragRect' = <<[startX |-> clientX - OverlayRect.left,
                              startY |-> clientY - OverlayRect.top,
                              currentX |-> clientX - OverlayRect.left,
                              currentY |-> clientY - OverlayRect.top]>>
            /\ gesture' = [kind |-> "started", bounds |-> NoBounds]
    /\ UNCHANGED <<appVars, rendererVars, serverVars, hostVars>>

\* DragSelector.handleMouseMove
handleMouseMove(clientX, clientY) ==
    /\ DragSelectorShown(diagramData, dragSelectEnabled)
    /\ IF ~isDragging \/ dragRect = <<>>
       THEN UNCHANGED dragRect
       ELSE dragRect' = <<[dragRect[1] EXCEPT
                              !.currentX = clientX - OverlayRect.left,
                              !.currentY = clientY - OverlayRect.top]>>
    /\ UNCHANGED <<isDragging, gesture, appVars, rendererVars, serverVars, hostVars>>

\* DragSelector.handleMouseUp
handleMouseUp ==
    /\ DragSelectorShown(diagramData, dragSelectEnabled)
    /\ isDragging' = FALSE
    /\ dragRect' = <<>>
    /\ IF ~isDragging \/ dragRect = <<>>
       THEN /\ gesture' = IF gesture.kind = "abort"
                          THEN [gesture EXCEPT !.kind = "aborted"]
                          ELSE [kind |-> "ignored", bounds |-> NoBounds]
            /\ UNCHANGED <<appVars, rendererVars>>
       ELSE IF BelowThreshold(dragRect[1])
       THEN /\ gesture' = [kind |-> "click",
                           bounds |-> SelectionBounds(dragRect[1])]
            /\ UNCHANGED <<appVars, rendererVars>>
       ELSE /\ gesture' = [kind |-> "drag",
                           bounds |-> SelectionBounds(dragRect[1])]
            /\ Commit(diagramData,
                      CollectSelected(QuerySelectorAll(tree),
                                      SelectionBounds(dragRect[1]),
                                      <<>>, {}),
                      TRUE, theme)
            /\ UNCHANGED dragSelectEnabled
    /\ UNCHANGED <<serverVars, hostVars>>

\* the rectangle dragged so far
DraggedBounds ==
    IF dragRect = <<>> THEN NoBounds ELSE SelectionBounds(dragRect[1])

\* a listener that leaves the drag in progress
handleKeyDown_NoReset(key) ==
    /\ DragSelectorShown(diagramData, dragSelectEnabled)
    /\ IF key = "Escape"
       THEN /\ UNCHANGED <<isDragging, dragRect>>
            /\ gesture' = IF isDragging
                          THEN [kind |-> "abort", bounds |-> DraggedBounds]
                          ELSE gesture
       ELSE UNCHANGED dragVars
    /\ UNCHANGED <<appVars, rendererVars, serverVars, hostVars>>

\* DragSelector's keydown listener on window
handleKeyDown(key) ==
    /\ DragSelectorShown(diagramData, dragSelectEnabled)
    /\ IF key = "Escape"
       THEN /\ isDragging' = FALSE
            /\ dragRect' = <<>>
            /\ gesture' = IF isDragging
                          THEN [kind |-> "abort", bounds |-> DraggedBounds]
                          ELSE gesture
       ELSE UNCHANGED dragVars
    /\ UNCHANGED <<appVars, rendererVars, serverVars, hostVars>>

Keys == {"Escape", "a"}

\* ------------------------------------------------------------------------
\* Specifications
\* ------------------------------------------------------------------------

\* the view as the host creates it: waiting for a diagram
Init ==
    /\ request = <<>> /\ response = <<>> /\ remembered = <<>>
    /\ diagramData = <<>>
    /\ selectedElements = <<>>
    /\ theme = "light"
    /\ dragSelectEnabled = FALSE
    /\ error = NULL
    /\ svg = <<>>
    /\ tree = <<>>
    /\ highlighted = {}
    /\ inflight = {}
    /\ nextRid = 1
    /\ latest = 0
    /\ outcome = NoOutcome
    /\ isDragging = FALSE
    /\ dragRect = <<>>
    /\ gesture = [kind |-> "none", bounds |-> NoBounds]
    /\ contextSent = <<>>
    /\ DisplayIdle

\* mouse positions of the view's gestures: the overlay's corner, and a
\* point 9 right of and 5 below it
ViewPoints ==
    {[x |-> OverlayRect.left, y |-> OverlayRect.top],
     [x |-> OverlayRect.left + 9, y |-> OverlayRect.top + 5]}

Next ==
    \/ RenderResultArrives
    \/ ValidateResultArrives
    \/ ThemeChanges
    \/ ToggleDragSelect
    \/ ClearSelection
    \/ RenderResolves
    \/ handleMouseDown(0, OverlayRect.left, OverlayRect.top)
    \/ \E p \in ViewPoints : handleMouseMove(p.x, p.y)
    \/ handleMouseUp
    \/ handleKeyDown("Escape")

Spec == Init /\ [][Next]_vars

\* A diagram has been rendered and drag-select switched on; the tree is
\* whatever the engine returned.
InitDrag ==
    /\ request = <<>> /\ response = <<>> /\ remembered = <<>>
    /\ diagramData =
          <<renderMermaidDiagram([markup |-> M_graphAB, title |-> NULL])
                .structuredContent>>
    /\ selectedElements = <<>>
    /\ theme = "light"
    /\ dragSelectEnabled = TRUE
    /\ error = NULL
    /\ svg = <<[rid |-> 1, markup |-> M_graphAB,
                renderer |-> Str_beautiful_mermaid, theme |-> "light"]>>
    /\ tree \in Trees
    /\ highlighted = {}
    /\ inflight = {}
    /\ nextRid = 2
    /\ latest = 1
    /\ outcome = [NoOutcome EXCEPT !.state = "ok"]
    /\ isDragging = FALSE
    /\ dragRect = <<>>
    /\ gesture = [kind |-> "none", bounds |-> NoBounds]
    /\ contextSent = <<>>
    /\ DisplayIdle

NextDrag ==
    \/ \E b \in Buttons, x \in DownXs, y \in DownYs : handleMouseDown(b, x, y)
    \/ \E x \in ClientXs, y \in ClientYs : handleMouseMove(x, y)
    \/ handleMouseUp
    \/ \E k \in Keys : handleKeyDown(k)

SpecDrag == InitDrag /\ [][NextDrag]_vars

\* ------------------------------------------------------------------------
\* The server: one action per tool handler
\* ------------------------------------------------------------------------

\* a tool call arrives from the host
Requests ==
    [tool : {"renderMermaidDiagram"},
     args : [markup : Markups, title : Titles]]
    \cup [tool : {"validateMermaidSyntax"}, args : [markup : Markups]]

\* calls that follow an answered call
FollowUpMarkups ==
    {<<>>,
     <<"p","i","e">>,
     <<"g","r","a","p","h"," ","T","D">>,
     <<"f","o","o","b","a","r","\n","s","o","m","e"," ","t","e","x","t">>}

FollowUps ==
    [tool : {"renderMermaidDiagram"},
     args : [markup : FollowUpMarkups, title : {NULL}]]
    \cup [tool : {"validateMermaidSyntax"}, args : [markup : FollowUpMarkups]]

\* the view plays no part in the server's answers
ViewIdle ==
    /\ diagramData = <<>>
    /\ selectedElements = <<>>
    /\ theme = "light"
    /\ dragSelectEnabled = FALSE
    /\ error = NULL
    /\ svg = <<>>
    /\ tree = <<>>
    /\ highlighted = {}
    /\ inflight = {}
    /\ nextRid = 1
    /\ latest = 0
    /\ outcome = NoOutcome
    /\ isDragging = FALSE
    /\ dragRect = <<>>
    /\ gesture = [kind |-> "none", bounds |-> NoBounds]
    /\ contextSent = <<>>
    /\ DisplayIdle

InitServer ==
    /\ request \in Requests
    /\ response = <<>>
    /\ remembered = <<>>
    /\ ViewIdle

\* a call other than the remembered one is being answered
NoteOther ==
    IF remembered # <<>> /\ remembered[1].request # request
    THEN <<[remembered[1] EXCEPT !.otherSince = TRUE]>>
    ELSE remembered

\* a handler that answers differently once a call has been answered before
CallRender_Stateful ==
    /\ response = <<>>
    /\ request.tool = "renderMermaidDiagram"
    /\ response' =
          IF remembered = <<>>
          THEN <<renderMermaidDiagram(request.args)>>
          ELSE <<[renderMermaidDiagram(request.args)
                     EXCEPT !.structuredContent.renderer = Str_mermaid]>>
    /\ remembered' = NoteOther
    /\ UNCHANGED <<request, appVars, rendererVars, dragVars, hostVars>>

CallRender ==
    /\ response = <<>>
    /\ request.tool = "renderMermaidDiagram"
    /\ response' = <<renderMermaidDiagram(request.args)>>
    /\ remembered' = NoteOther
    /\ UNCHANGED <<request, appVars, rendererVars, dragVars, hostVars>>

CallValidate ==
    /\ response = <<>>
    /\ request.tool = "validateMermaidSyntax"
    /\ response' = <<validateTool(request.args)>>
    /\ remembered' = NoteOther
    /\ UNCHANGED <<request, appVars, rendererVars, dragVars, hostVars>>

\* the answer is delivered and the next call arrives
NextCall ==
    /\ response # <<>>
    /\ request' \in FollowUps
    /\ response' = <<>>
    /\ UNCHANGED <<remembered, appVars, rendererVars, dragVars, hostVars>>

NextServer == CallRender \/ CallValidate \/ NextCall

SpecServer == InitServer /\ [][NextServer]_vars

\* The validate tool is called while the view shows a rendered diagram, with
\* or without a selection, and its result is handed to the view
ValidateRequests ==
    [tool : {"validateMermaidSyntax"}, args : [markup : Markups]]

SelectionOf(el) ==
    [id |-> el.id, label |-> extractLabel(el), type |-> classifyElement(el)]

InitValidate ==
    /\ request \in ValidateRequests
    /\ response = <<>>
    /\ remembered = <<>>
    /\ diagramData =
          <<renderMermaidDiagram([markup |-> M_graphAB, title |-> NULL])
                .structuredContent>>
    /\ selectedElements \in {<<>>, <<SelectionOf(El_nodeA)>>}
    /\ theme = "light"
    /\ dragSelectEnabled = TRUE
    /\ error = NULL
    /\ svg = <<[rid |-> 1, markup |-> M_graphAB,
                renderer |-> Str_beautiful_mermaid, theme |-> "light"]>>
    /\ tree = EngineTree(M_graphAB)
    /\ highlighted = HighlightEffect(tree, selectedElements)
    /\ inflight = {}
    /\ nextRid = 2
    /\ latest = 1
    /\ outcome = [NoOutcome EXCEPT !.state = "ok"]
    /\ isDragging = FALSE
    /\ dragRect = <<>>
    /\ gesture = [kind |-> "none", bounds |-> NoBounds]
    /\ contextSent = <<>>
    /\ DisplayIdle

NextValidate == CallValidate \/ ontoolresult

SpecValidate == InitValidate /\ [][NextValidate]_vars

\* The operator selects by dragging over a rendered diagram, clears the
\* selection and adds it to the context
InitContext ==
    /\ InitDrag
    /\ tree = EngineTree(M_graphAB)

NextContext ==
    \/ handleMouseDown(0, OverlayRect.left, OverlayRect.top)
    \/ \E x \in ClientXs, y \in ClientYs : handleMouseMove(x, y)
    \/ handleMouseUp
    \/ ClearSelection
    \/ addSelectionToContext

SpecContext == InitContext /\ [][NextContext]_vars

\* The render tool is called and its result handed to a view that is
\* waiting, shows a rendered diagram with or without a selection, or shows
\* a syntax error; the operator may add the selection to the context
ArrivalRequests ==
    [tool : {"renderMermaidDiagram"},
     args : [markup : FollowUpMarkups \cup ViewMarkups, title : Titles]]

\* the view shows the rendered M_graphAB
RenderedView ==
    /\ diagramData =
          <<renderMermaidDiagram([markup |-> M_graphAB, title |-> NULL])
                .structuredContent>>
    /\ selectedElements \in {<<>>, <<SelectionOf(El_nodeA)>>}
    /\ error = NULL
    /\ svg = <<[rid |-> 1, markup |-> M_graphAB,
                renderer |-> Str_beautiful_mermaid, theme |-> "light"]>>
    /\ tree = EngineTree(M_graphAB)
    /\ highlighted = HighlightEffect(tree, selectedElements)
    /\ nextRid = 2
    /\ latest = 1
    /\ outcome = [NoOutcome EXCEPT !.state = "ok"]

\* the view shows the syntax error of M_foobar
RejectedView ==
    /\ diagramData =
          <<renderMermaidDiagram([markup |-> M_foobar, title |-> NULL])
                .structuredContent>>
    /\ selectedElements = <<>>
    /\ error = NULL
    /\ svg = <<>>
    /\ tree = <<>>
    /\ highlighted = {}
    /\ nextRid = 1
    /\ latest = 0
    /\ outcome = NoOutcome

\* the view waits for its first diagram
WaitingView ==
    /\ diagramData = <<>>
    /\ selectedElements = <<>>
    /\ error = NULL
    /\ svg = <<>>
    /\ tree = <<>>
    /\ highlighted = {}
    /\ nextRid = 1
    /\ latest = 0
    /\ outcome = NoOutcome

InitArrival ==
    /\ request \in ArrivalRequests
    /\ response = <<>>
    /\ remembered = <<>>
    /\ (WaitingView \/ RenderedView \/ RejectedView)
    /\ theme = "light"
    /\ dragSelectEnabled = TRUE
    /\ inflight = {}
    /\ isDragging = FALSE
    /\ dragRect = <<>>
    /\ gesture = [kind |-> "none", bounds |-> NoBounds]
    /\ contextSent = <<>>
    /\ DisplayIdle

NextArrival == CallRender \/ ontoolresult \/ addSelectionToContext

SpecArrival == InitArrival /\ [][NextArrival]_vars

\* most toggleFullscreen calls in one behaviour
MaxToggles == 2

DisplayModes == {"inline", "fullscreen"}

\* what is unchanged by the steps of toggleFullscreen other than the flag
toggleFrame ==
    UNCHANGED <<serverVars, appVars, rendererVars, dragVars, contextSent,
                hostDisplayMode>>

\* toggleFullscreen up to its await: the operator presses the button
toggleFullscreen ==
    /\ diagramData # <<>>
    /\ Cardinality(displayRequests) < MaxToggles
    /\ displayRequests' = displayRequests \cup
          {[id |-> Cardinality(displayRequests) + 1,
            mode |-> IF isFullscreen THEN "inline" ELSE "fullscreen",
            flag |-> isFullscreen,
            state |-> "pending"]}
    /\ UNCHANGED isFullscreen
    /\ toggleFrame

\* app.requestDisplayMode: the host settles the promise either way
requestDisplayMode(r, settled) ==
    /\ r \in displayRequests
    /\ r.state = "pending"
    /\ displayRequests' =
          (displayRequests \ {r}) \cup {[r EXCEPT !.state = settled]}
    /\ UNCHANGED isFullscreen
    /\ toggleFrame

\* the rest of toggleFullscreen with no try block: a rejection is thrown
\* out of the handler after the flag is set
toggleFullscreenResumes_NoCatch(r) ==
    /\ r \in displayRequests
    /\ r.state \in {"resolved", "rejected"}
    /\ isFullscreen' = ~r.flag
    /\ displayRequests' =
          (displayRequests \ {r}) \cup
          {[r EXCEPT !.state = IF r.state = "resolved" THEN "flipped"
                               ELSE "escaped"]}
    /\ toggleFrame

\* the rest of toggleFullscreen, after its await: setIsFullscreen with the
\* flag the handler was created with, or the catch block
toggleFullscreenResumes(r) ==
    /\ r \in displayRequests
    /\ r.state \in {"resolved", "rejected"}
    /\ IF r.state = "resolved"
       THEN /\ isFullscreen' = ~r.flag
            /\ displayRequests' =
                  (displayRequests \ {r}) \cup {[r EXCEPT !.state = "flipped"]}
       ELSE /\ UNCHANGED isFullscreen
            /\ displayRequests' =
                  (displayRequests \ {r}) \cup {[r EXCEPT !.state = "warned"]}
    /\ toggleFrame

\* app.onhostcontextchanged with a partial context, and the effect that
\* syncs the display mode; displayMode is <<>> when ctx does not carry one
onhostcontextchanged(displayMode) ==
    /\ hostDisplayMode' =
          IF displayMode = <<>> THEN hostDisplayMode ELSE displayMode
    /\ isFullscreen' =
          IF hostDisplayMode' # <<>>
          THEN hostDisplayMode'[1] = "fullscreen"
          ELSE isFullscreen
    /\ UNCHANGED <<serverVars, appVars, rendererVars, dragVars, contextSent,
                   displayRequests>>

\* A view that waits, shows a rendered diagram or shows a syntax error; the
\* operator toggles fullscreen and the host answers
InitFullscreen ==
    /\ request = <<>>
    /\ response = <<>>
    /\ remembered = <<>>
    /\ (WaitingView \/ RenderedView \/ RejectedView)
    /\ theme = "light"
    /\ dragSelectEnabled = TRUE
    /\ inflight = {}
    /\ isDragging = FALSE
    /\ dragRect = <<>>
    /\ gesture = [kind |-> "none", bounds |-> NoBounds]
    /\ contextSent = <<>>
    /\ DisplayIdle

NextFullscreen ==
    \/ toggleFullscreen
    \/ \E r \in displayRequests, settled \in {"resolved", "rejected"} :
           requestDisplayMode(r, settled)
    \/ \E r \in displayRequests : toggleFullscreenResumes(r)
    \/ \E m \in DisplayModes : onhostcontextchanged(<<m>>)
    \/ onhostcontextchanged(<<>>)
    \/ ClearSelection
    \/ addSelectionToContext

SpecFullscreen == InitFullscreen /\ [][NextFullscreen]_vars

\* The operator drags over a tree of one group; its text, aria-label, title
\* and id are present or absent, empty or not
LabelTexts == {NULL, <<>>, <<" ">>, <<" ","A"," ">>}
LabelArias == {NULL, <<>>, <<"S","1">>}
LabelTitles == {NULL, <<>>, <<"G","r","o","u","p">>}
LabelIds == {<<>>, <<"s","t","a","t","e","-","s","2">>}

LabelElements ==
    {[inSvg |-> TRUE, tag |-> Str_g, id |-> i, class |-> Str_node,
      box |-> Box(12, 21, 14, 23), text |-> t, aria |-> a, title |-> ti] :
        t \in LabelTexts, a \in LabelArias, ti \in LabelTitles,
        i \in LabelIds}

InitLabel ==
    /\ request = <<>> /\ response = <<>> /\ remembered = <<>>
    /\ diagramData =
          <<renderMermaidDiagram([markup |-> M_graphAB, title |-> NULL])
                .structuredContent>>
    /\ selectedElements = <<>>
    /\ theme = "light"
    /\ dragSelectEnabled = TRUE
    /\ error = NULL
    /\ svg = <<[rid |-> 1, markup |-> M_graphAB,
                renderer |-> Str_beautiful_mermaid, theme |-> "light"]>>
    /\ \E el \in LabelElements : tree = <<el>>
    /\ highlighted = {}
    /\ inflight = {}
    /\ nextRid = 2
    /\ latest = 1
    /\ outcome = [NoOutcome EXCEPT !.state = "ok"]
    /\ isDragging = FALSE
    /\ dragRect = <<>>
    /\ gesture = [kind |-> "none", bounds |-> NoBounds]
    /\ contextSent = <<>>
    /\ DisplayIdle

NextLabel ==
    \/ handleMouseDown(0, OverlayRect.left, OverlayRect.top)
    \/ \E p \in ViewPoints : handleMouseMove(p.x, p.y)
    \/ handleMouseUp

SpecLabel == InitLabel /\ [][NextLabel]_vars

\* The operator drags over a tree of one group whose class attribute and id
\* each name a kind or none
KindClasses ==
    {<<>>, <<"n","o","d","e"," ","d","e","f","a","u","l","t">>,
     <<"e","d","g","e","P","a","t","h">>,
     <<"e","d","g","e","L","a","b","e","l">>, <<"c","l","u","s","t","e","r">>}
KindIds ==
    {<<>>, <<"f","l","o","w","c","h","a","r","t","-","A","-","0">>,
     <<"s","t","a","t","e","-","s","2">>, <<"L","-","A","-","B","-","0">>,
     <<"s","t","a","t","e","-","e","d","g","e","1">>,
     <<"e","n","t","i","t","y","-","e","d","g","e","1">>,
     <<"c","l","a","s","s","I","d","-","X">>}

KindElements ==
    {[inSvg |-> TRUE, tag |-> Str_g, id |-> i, class |-> c,
      box |-> Box(12, 21, 14, 23), text |-> <<"A">>, aria |-> NULL,
      title |-> NULL] : c \in KindClasses, i \in KindIds}

InitKind ==
    /\ request = <<>> /\ response = <<>> /\ remembered = <<>>
    /\ diagramData =
          <<renderMermaidDiagram([markup |-> M_graphAB, title |-> NULL])
                .structuredContent>>
    /\ selectedElements = <<>>
    /\ theme = "light"
    /\ dragSelectEnabled = TRUE
    /\ error = NULL
    /\ svg = <<[rid |-> 1, markup |-> M_graphAB,
                renderer |-> Str_beautiful_mermaid, theme |-> "light"]>>
    /\ \E el \in KindElements : tree = <<el>>
    /\ highlighted = {}
    /\ inflight = {}
    /\ nextRid = 2
    /\ latest = 1
    /\ outcome = [NoOutcome EXCEPT !.state = "ok"]
    /\ isDragging = FALSE
    /\ dragRect = <<>>
    /\ gesture = [kind |-> "none", bounds |-> NoBounds]
    /\ contextSent = <<>>
    /\ DisplayIdle

SpecKind == InitKind /\ [][NextLabel]_vars

\* A session of calls in which one answered call is kept for comparison
\* with the calls after it
Remember ==
    /\ response # <<>>
    /\ remembered = <<>>
    /\ remembered' = <<[request |-> request, result |-> response[1],
                        otherSince |-> FALSE]>>
    /\ UNCHANGED <<request, response, appVars, rendererVars, dragVars, hostVars>>

InitSession ==
    /\ request \in FollowUps
    /\ response = <<>>
    /\ remembered = <<>>
    /\ ViewIdle

NextSession == NextServer \/ Remember

SpecSession == InitSession /\ [][NextSession]_vars

\* ------------------------------------------------------------------------
\* Properties of the server (checked under SpecServer)
\* ------------------------------------------------------------------------

RECURSIVE SplitLines(_)
\* s.split("\n"): every line of s
SplitLines(s) ==
    LET nl == {i \in 1..Len(s) : s[i] = "\n"}
    IN  IF nl = {} THEN <<s>>
        ELSE <<SubSeq(s, 1, SetMin(nl) - 1)>>
             \o SplitLines(SubSeq(s, SetMin(nl) + 1, Len(s)))

IsBlank(s) == \A i \in 1..Len(s) : s[i] \in WhiteSpace

\* the first line of s holding a character that is no white space, without
\* the white space around it; empty when s has no such line
FirstNonBlankLine(s) ==
    LET ls == SplitLines(s)
        nb == {k \in 1..Len(ls) : ~IsBlank(ls[k])}
    IN  IF nb = {} THEN <<>> ELSE Trim(ls[SetMin(nb)])

Contains(s, sub) ==
    \E i \in 0..(Len(s) - Len(sub)) : SubSeq(s, i + 1, i + Len(sub)) = sub

EndsWith(s, sub) ==
    Len(sub) <= Len(s) /\ SubSeq(s, Len(s) - Len(sub) + 1, Len(s)) = sub

KnownKeywords == {KNOWN_DIAGRAM_KEYWORDS[k] : k \in 1..Len(KNOWN_DIAGRAM_KEYWORDS)}

\* the gate's rejection, stated on the text alone
GateRejects(m) ==
    \/ IsBlank(m)
    \/ \A kw \in KnownKeywords : ~StartsWith(ToLowerCase(FirstNonBlankLine(m)), kw)

\* the tags detectDiagramType can return
TagSet ==
    {T_flowchart, T_sequenceDiagram, T_classDiagram, T_stateDiagram,
     T_erDiagram, T_gantt, T_pie, T_gitGraph, T_mindmap, T_timeline,
     T_journey, T_quadrantChart, T_requirementDiagram, T_c4, T_sankey,
     T_xyChart, T_block, T_packet, T_kanban, T_architecture, T_unknown}

\* keywords of the diagram families the primary engine draws
PrimaryKeywords ==
    {kw_flowchart, kw_graph, kw_statediagram, kw_sequencediagram,
     kw_classdiagram, kw_erdiagram}

Answered == response # <<>>
RenderAnswered == Answered /\ request.tool = "renderMermaidDiagram"
Markup == request.args.markup
Payload == response[1].structuredContent
\* the gate's verdict as either tool reports it
ReportedError ==
    IF request.tool = "renderMermaidDiagram"
    THEN Payload.syntaxError ELSE Payload.error

\* C2: every structured payload of renderMermaidDiagram has renderer "none"
\* when syntaxError is non-null, and otherwise renderer "beautiful-mermaid"
\* or "mermaid", "beautiful-mermaid" exactly when diagramType is in the
\* support set.
C2_PayloadInvariant ==
    RenderAnswered =>
        /\ Payload.syntaxError # NULL => Payload.renderer = Str_none
        /\ Payload.syntaxError = NULL =>
              /\ Payload.renderer \in {Str_beautiful_mermaid, Str_mermaid}
              /\ Payload.renderer = Str_beautiful_mermaid
                    <=> Payload.diagramType \in BEAUTIFUL_MERMAID_TYPES

C2_Witness ==
    /\ RenderAnswered
    /\ Payload.syntaxError # NULL
    /\ Payload.renderer = Str_none
    /\ ~IsBlank(Markup)

\* C3: the gate returns an error exactly when the markup is empty after
\* trimming or its normalised first line starts with no known keyword; the
\* empty case returns exactly "Empty diagram markup".
C3_GateInvariant ==
    Answered =>
        /\ ReportedError # NULL <=> GateRejects(Markup)
        /\ IsBlank(Markup) => ReportedError = Str_EmptyMarkup

C3_Witness ==
    /\ Answered
    /\ ReportedError = NULL
    /\ Markup[1] = "\n"
    /\ FirstNonBlankLine(Markup) # ToLowerCase(FirstNonBlankLine(Markup))

\* C4: detectDiagramType returns a tag of the closed tag set for every
\* text, "unknown" for the empty text, and the tag it returns is the one it
\* returns for the first non-blank line alone, trimmed and lower-cased.
C4_ClassificationTotal ==
    Answered =>
        /\ Payload.diagramType \in TagSet
        /\ Markup = <<>> => Payload.diagramType = T_unknown
        /\ Payload.diagramType
             = detectDiagramType(ToLowerCase(FirstNonBlankLine(Markup)))

C4_Witness ==
    /\ Answered
    /\ Len(Markup) > 2 /\ Markup[1] = "\n" /\ Markup[2] = " "
    /\ Payload.diagramType = T_gitGraph
    /\ Len(SplitLines(Markup)) > 2

\* C5: for markup that passes the gate the renderer is the primary engine
\* exactly for flowchart/graph, state, sequence, class and
\* entity-relationship diagrams and the fallback engine otherwise.
C5_BackendSelection ==
    (RenderAnswered /\ Payload.syntaxError = NULL) =>
        LET primary ==
                \E kw \in PrimaryKeywords :
                    StartsWith(ToLowerCase(FirstNonBlankLine(Markup)), kw)
        IN  /\ primary => Payload.renderer = Str_beautiful_mermaid
            /\ ~primary => Payload.renderer = Str_mermaid
            /\ Markup = <<"f","l","o","w","c","h","a","r","t"," ","T","D",
                          "\n"," "," ","A","-","-",">","B">>
                  => /\ Payload.diagramType = T_flowchart
                     /\ Payload.renderer = Str_beautiful_mermaid
            /\ Markup = <<"g","r","a","p","h"," ","T","D",
                          "\n"," "," ","A","-","-",">","B">>
                  => Payload.renderer = Str_beautiful_mermaid
            /\ Markup = <<"x","y","c","h","a","r","t","-","b","e","t","a",
                          "\n"," "," ","t","i","t","l","e"," ","X">>
                  => /\ Payload.diagramType = T_xyChart
                     /\ Payload.renderer = Str_mermaid

C5_Witness ==
    /\ RenderAnswered
    /\ Markup = <<"x","y","c","h","a","r","t","-","b","e","t","a",
                  "\n"," "," ","t","i","t","l","e"," ","X">>
    /\ Payload.renderer = Str_mermaid

\* C9: the renderMermaidDiagram result is marked as an error exactly when
\* the gate rejects the markup; the payload carries the request's markup
\* unchanged, the title (empty when none was given) and the diagram type,
\* and the text of a rejection ends with the full markup.
C9_ResponseMarking ==
    RenderAnswered =>
        /\ response[1].isError <=> GateRejects(Markup)
        /\ Payload.markup = Markup
        /\ Payload.title
             = (IF request.args.title = NULL THEN <<>> ELSE request.args.title)
        /\ Payload.diagramType = detectDiagramType(Markup)
        /\ GateRejects(Markup) =>
              EndsWith(response[1].text, Str_PleaseFix \o Markup)

C9_Witness ==
    /\ RenderAnswered
    /\ response[1].isError
    /\ request.args.title = NULL
    /\ Len(SplitLines(Markup)) > 1
    /\ ~IsBlank(Markup)

\* C10: when the gate rejects non-empty markup the message ends with the
\* offending first line in quotes, its characters and letter case as in the
\* markup (the first non-blank line without the white space around it).
C10_EchoVerbatim ==
    (Answered /\ ReportedError # NULL /\ ~IsBlank(Markup)) =>
        /\ Contains(ReportedError, FirstNonBlankLine(Markup))
        /\ EndsWith(ReportedError,
                    Str_Quote \o FirstNonBlankLine(Markup) \o Str_Quote)

C10_Witness ==
    /\ Answered
    /\ ReportedError # NULL
    /\ FirstNonBlankLine(Markup) = <<"F","o","o","B","a","r"," ","T","D">>

\* ------------------------------------------------------------------------
\* Properties of the render effect (checked under Spec)
\* ------------------------------------------------------------------------

\* the container shows the SVG of the latest request's inputs
LatestInstalled ==
    /\ svg # <<>>
    /\ svg[1].rid = latest
    /\ svg[1].markup = diagramData[1].markup
    /\ svg[1].renderer = diagramData[1].renderer
    /\ svg[1].theme = theme

\* the view shows the outcome of the latest request's render() call
LatestShown ==
    latest # 0 =>
        /\ outcome.state = "pending" => ~Truthy(error)
        /\ outcome.state = "ok" => LatestInstalled /\ ~Truthy(error)
        /\ outcome.state = "failed" =>
              error = outcome.message /\ svg = <<>>

\* the engine call of r resolves in this step, after a newer request
StaleResolution(r) ==
    /\ r \in inflight
    /\ inflight' = inflight \ {r}
    /\ r.rid # latest

\* C1: last request wins. A render() call that resolves after a newer
\* request was made installs neither its SVG nor its error, whether it
\* succeeds or fails; and once the render of the latest request has
\* resolved the view shows its outcome (its SVG and no error, or its error
\* message), while it is pending no error is shown.
C1_LastRequestWins ==
    /\ []LatestShown
    /\ [][\A r \in inflight :
             StaleResolution(r) => UNCHANGED <<svg, tree, error>>]_vars

\* render 1 was pending when render 2 was requested; both have resolved,
\* render 2 with an error, and the error of render 2 is shown
C1_Witness ==
    /\ latest = 2
    /\ nextRid = 3
    /\ inflight = {}
    /\ outcome.state = "failed"
    /\ outcome.staleSeen
    /\ error = outcome.message
    /\ svg = <<>>

\* ------------------------------------------------------------------------
\* Properties of the drag selection (checked under SpecDrag)
\* ------------------------------------------------------------------------

\* B and R overlap strictly on both axes
BoxesOverlap(B, R) ==
    /\ B.left < R.right /\ B.right > R.left
    /\ B.top < R.bottom /\ B.bottom > R.top

Candidates == QuerySelectorAll(tree)
SelectedIds == {selectedElements[k].id : k \in 1..Len(selectedElements)}
\* a drag of the left button has just been completed with rectangle
\* gesture.bounds
DragCompleted == gesture.kind = "drag"

\* C6 as stated: every candidate is selected exactly when its box strictly
\* overlaps the rectangle.
C6_OverlapLawAsStated ==
    DragCompleted =>
        \A i \in 1..Len(Candidates) :
            Candidates[i].id \in SelectedIds
                <=> BoxesOverlap(Candidates[i].box, gesture.bounds)

\* C6, amended: after a completed drag the selection holds an id exactly
\* when the id is not empty and some candidate carrying it strictly
\* overlaps the rectangle on both axes; candidates without an id are never
\* selected, and a rectangle overlapping no candidate gives the empty
\* selection.
C6_OverlapLaw ==
    DragCompleted =>
        /\ \A i \in 1..Len(Candidates) :
               Candidates[i].id # <<>> =>
                   (Candidates[i].id \in SelectedIds
                      <=> \E j \in 1..Len(Candidates) :
                             /\ Candidates[j].id = Candidates[i].id
                             /\ BoxesOverlap(Candidates[j].box, gesture.bounds))
        /\ \A id \in SelectedIds :
               /\ id # <<>>
               /\ \E i \in 1..Len(Candidates) : Candidates[i].id = id
        /\ (\A i \in 1..Len(Candidates) :
                ~BoxesOverlap(Candidates[i].box, gesture.bounds))
              => selectedElements = <<>>

\* the rectangle cuts El_nodeA and touches El_state at its left edge
C6_Witness ==
    /\ DragCompleted
    /\ gesture.bounds = Box(13, 20, 15, 25)
    /\ tree = <<El_nodeA, El_state>>
    /\ SelectedIds = {El_nodeA.id}

\* C7: the ids of a selection produced by a drag are pairwise distinct, and
\* the entry kept for an id is the one of the first candidate in tree
\* order that carries the id and overlaps the rectangle.
C7_DedupLaw ==
    DragCompleted =>
        /\ \A j, k \in 1..Len(selectedElements) :
               j # k => selectedElements[j].id # selectedElements[k].id
        /\ \A k \in 1..Len(selectedElements) :
               LET hits == {i \in 1..Len(Candidates) :
                               /\ Candidates[i].id = selectedElements[k].id
                               /\ BoxesOverlap(Candidates[i].box, gesture.bounds)}
               IN  /\ hits # {}
                   /\ selectedElements[k].label
                        = extractLabel(Candidates[SetMin(hits)])
                   /\ selectedElements[k].type
                        = classifyElement(Candidates[SetMin(hits)])

\* two overlapped groups share an id: one entry, with the first one's label
C7_Witness ==
    /\ DragCompleted
    /\ gesture.bounds = Box(10, 20, 19, 25)
    /\ tree = <<El_nodeA, El_nodeA2>>
    /\ Len(selectedElements) = 1
    /\ selectedElements[1].id = El_nodeA.id
    /\ selectedElements[1].label = <<"A">>

\* C8: a mouse-up ending a gesture smaller than 5 px on both axes leaves
\* the selection (and its highlights) as it was and is a click; one that
\* reaches 5 px on an axis is a drag and sets the selection to elements
\* overlapping its rectangle.
C8_MotionThreshold ==
    [][(handleMouseUp /\ isDragging /\ dragRect # <<>>) =>
          LET w == Abs(dragRect[1].currentX - dragRect[1].startX)
              h == Abs(dragRect[1].currentY - dragRect[1].startY)
          IN  IF w < 5 /\ h < 5
              THEN /\ gesture'.kind = "click"
                   /\ selectedElements' = selectedElements
                   /\ highlighted' = highlighted
              ELSE /\ gesture'.kind = "drag"
                   /\ \A k \in 1..Len(selectedElements') :
                          \E i \in 1..Len(Candidates) :
                              /\ Candidates[i].id = selectedElements'[k].id
                              /\ BoxesOverlap(Candidates[i].box,
                                              gesture'.bounds)
       ]_vars

\* a 3 x 3 px gesture ended as a click over a selection made before
C8_Witness ==
    /\ gesture.kind = "click"
    /\ gesture.bounds.right - gesture.bounds.left = 3
    /\ gesture.bounds.bottom - gesture.bounds.top = 3
    /\ selectedElements # <<>>
    /\ ~isDragging

\* C16: Escape abort. Escape pressed during a drag ends the gesture; no
\* step after it up to and including the mouse-up (mouse-moves, further
\* keys) changes the selection or the highlights, whatever rectangle had
\* been dragged, and the mouse-up does not count as a drag or a click.
C16_EscapeAbort ==
    [][/\ (isDragging /\ handleKeyDown("Escape")) =>
             /\ gesture'.kind = "abort"
             /\ ~isDragging' /\ dragRect' = <<>>
             /\ selectedElements' = selectedElements
       /\ gesture.kind = "abort" =>
             /\ selectedElements' = selectedElements
             /\ highlighted' = highlighted
             /\ gesture'.kind \in {"abort", "aborted", "started"}
             /\ handleMouseUp => gesture'.kind = "aborted"
      ]_vars

\* a drag of 9 x 5 px over a selection was aborted and the mouse released:
\* the selection is still there
C16_Witness ==
    /\ gesture.kind = "aborted"
    /\ gesture.bounds = Box(10, 20, 19, 25)
    /\ selectedElements # <<>>
    /\ ~isDragging
    /\ dragRect = <<>>

\* ------------------------------------------------------------------------
\* Properties of a session of calls (checked under SpecSession)
\* ------------------------------------------------------------------------

\* the call being answered repeats the remembered one: same tool, same markup
RepeatsRemembered ==
    /\ response # <<>>
    /\ remembered # <<>>
    /\ remembered[1].request.tool = request.tool
    /\ remembered[1].request.args.markup = request.args.markup

ValidateAnswered ==
    /\ request # <<>>
    /\ request.tool = "validateMermaidSyntax"
    /\ response # <<>>

\* the result of the call reaches the view in this step
ResultDelivered == request # <<>> /\ request' = <<>>

\* C12: validate-only tool. valid is true iff error is null iff the render
\* tool accepts the same markup, the diagramType is the render tool's, and
\* the result, which carries no markup field, leaves payload, selection,
\* rendered tree, highlights and pending renders unchanged when it reaches
\* the view.
C12_ValidateOnly ==
    /\ [](ValidateAnswered =>
            LET v == response[1].structuredContent
                r == renderMermaidDiagram([markup |-> request.args.markup,
                                           title |-> NULL])
            IN  /\ v.valid <=> (v.error = NULL)
                /\ v.valid <=> ~r.isError
                /\ v.valid <=> (r.structuredContent.syntaxError = NULL)
                /\ v.diagramType = r.structuredContent.diagramType
                /\ "markup" \notin DOMAIN v)
    /\ [][ResultDelivered =>
             UNCHANGED <<diagramData, selectedElements, tree, svg,
                         highlighted, error, inflight, nextRid>>]_vars

\* a result saying "invalid" has reached a view that shows a diagram with
\* a selection
C12_Witness ==
    /\ request = <<>>
    /\ response # <<>>
    /\ "valid" \in DOMAIN response[1].structuredContent
    /\ ~response[1].structuredContent.valid
    /\ diagramData # <<>>
    /\ tree # <<>>
    /\ selectedElements # <<>>
    /\ highlighted # {}

\* ------------------------------------------------------------------------
\* Properties of the context update (checked under SpecContext)
\* ------------------------------------------------------------------------

\* the lines of the text sent, after its heading
SentLines == Tail(SplitLines(contextSent[1]))

\* the line the claim gives for an element: "{kind}: {label} ({id})"
ClaimedLine(el) ==
    el.type \o <<":", " ">> \o el.label \o <<" ", "(">> \o el.id \o <<")">>

\* C13: context update. Requested with a non-empty selection, the text
\* sent has, after its heading, exactly one line "{kind}: {label} ({id})"
\* per element of the selection, in selection order and no other line;
\* requested with an empty selection, nothing is sent.
C13_ContextUpdate ==
    [][addSelectionToContext =>
          IF selectedElements = <<>>
          THEN contextSent' = contextSent
          ELSE /\ contextSent' # <<>>
               /\ Tail(SplitLines(contextSent'[1]))
                    = [k \in 1..Len(selectedElements) |->
                          ClaimedLine(selectedElements[k])]
               /\ Head(SplitLines(contextSent'[1]))
                    = SubSeq(Str_SelectedHead, 1, Len(Str_SelectedHead) - 1)
       ]_vars

\* a selection of two elements has been sent, node A before state S1
C13_Witness ==
    /\ contextSent # <<>>
    /\ Len(selectedElements) = 2
    /\ Len(SentLines) = 2
    /\ SentLines[1] = ClaimedLine(SelectionOf(El_nodeA))
    /\ SentLines[2] = ClaimedLine(SelectionOf(El_state))

\* ------------------------------------------------------------------------
\* Properties of the view after a render error (checked under Spec)
\* ------------------------------------------------------------------------

\* the error text of a failed render is shown
Errored == DiagramAreaShown(diagramData) /\ Truthy(error)

\* this step requests a render with changed inputs: the diagram area is
\* shown before and after, and markup, diagram type, backend or theme differ
ChangedInputsRequested ==
    /\ DiagramAreaShown(diagramData)
    /\ DiagramAreaShown(diagramData')
    /\ RenderDeps(diagramData', theme') # RenderDeps(diagramData, theme)

\* this step starts a render() call, which invokes the engine
EngineInvoked == nextRid' = nextRid + 1 /\ latest' = nextRid

\* C14 as stated: recovery from a render error. A render request with
\* changed inputs made while the error text of a failed render is shown
\* invokes the engine again and takes the error text away until that call
\* resolves.
C14_RecoveryAsStated ==
    [][(Errored /\ ChangedInputsRequested) =>
          (EngineInvoked /\ ~Truthy(error'))]_vars

\* ------------------------------------------------------------------------
\* Properties of the highlights (checked under Spec)
\* ------------------------------------------------------------------------

\* positions of the elements of the current tree whose id is selected
SelectedInTree == {i \in 1..Len(tree) : tree[i].id \in SelectedIds}

\* C15 as stated: highlight synchronisation. Once no render is pending,
\* the elements carrying the highlight marker are exactly the elements of
\* the current tree whose id is in the current selection.
C15_HighlightSyncAsStated ==
    inflight = {} => highlighted = SelectedInTree

\* ------------------------------------------------------------------------
\* Properties of a payload's arrival (checked under SpecArrival)
\* ------------------------------------------------------------------------

\* the result handed to the view carries a text markup field
CarriesMarkup == "markup" \in DOMAIN response[1].structuredContent

\* C17: session reset. The step in which a tool result carrying a markup
\* field reaches the view makes that result's payload the current payload,
\* every field of it, and empties the selection, whatever payload and
\* selection the view had and whether or not the payload has a syntax
\* error.
C17_SessionReset ==
    [][(ResultDelivered /\ CarriesMarkup) =>
          /\ diagramData' = <<response[1].structuredContent>>
          /\ selectedElements' = <<>>]_vars

\* a payload with a syntax error has replaced a rendered diagram whose
\* selection had been added to the context
C17_Witness ==
    /\ request = <<>>
    /\ response # <<>>
    /\ contextSent # <<>>
    /\ diagramData = <<response[1].structuredContent>>
    /\ Truthy(diagramData[1].syntaxError)
    /\ selectedElements = <<>>

\* ------------------------------------------------------------------------
\* Properties of the engine calls (checked under Spec)
\* ------------------------------------------------------------------------

\* the current payload was rejected before rendering
PayloadRejected == diagramData # <<>> /\ Truthy(diagramData[1].syntaxError)

\* C18: pre-render short-circuit. No step starts an engine call unless the
\* payload it leaves current has a null syntaxError and a backend other
\* than "none", and the call is for that payload's markup; while a rejected
\* payload is current no call is pending uncancelled.
C18_ShortCircuit ==
    /\ [][nextRid' # nextRid =>
             /\ diagramData' # <<>>
             /\ diagramData'[1].syntaxError = NULL
             /\ diagramData'[1].renderer # Str_none
             /\ \E r \in inflight' :
                    /\ r.rid = nextRid
                    /\ r.markup = diagramData'[1].markup
                    /\ r.renderer = diagramData'[1].renderer]_vars
    /\ [](PayloadRejected =>
             /\ diagramData[1].renderer = Str_none
             /\ latest = 0
             /\ \A r \in inflight : r.cancelled)

\* a rejected payload has arrived first and the theme has changed since:
\* no engine call has been made
C18_Witness ==
    /\ PayloadRejected
    /\ theme = "dark"
    /\ nextRid = 1
    /\ inflight = {}
    /\ svg = <<>>

\* the engine call of the current render() call throws in this step
CurrentRenderThrows ==
    /\ outcome.state = "pending"
    /\ outcome'.state = "failed"
    /\ latest' = latest

\* C19: engine errors are captured, not retried. When the engine call of
\* the current render throws, the error text shown is the engine's message
\* and no engine call is started; while the error is shown an engine call
\* starts only in a step that changes markup, diagram type, backend or
\* theme; and no step starts more than one engine call.
C19_NoRetry ==
    [][/\ CurrentRenderThrows =>
             /\ outcome'.message \in EngineMessages
             /\ error' = outcome'.message
             /\ DiagramAreaShown(diagramData')
             /\ nextRid' = nextRid
             /\ inflight' \subseteq inflight
       /\ (Errored /\ nextRid' # nextRid) =>
             RenderDeps(diagramData', theme') # RenderDeps(diagramData, theme)
       /\ nextRid' \in {nextRid, nextRid + 1}
       /\ \A r \in inflight' \ inflight : r.rid = nextRid \/ r.cancelled
      ]_vars

\* the first render failed, its message is shown and nothing is pending
C19_Witness ==
    /\ Errored
    /\ outcome.state = "failed"
    /\ error \in EngineMessages
    /\ latest = 1
    /\ nextRid = 2
    /\ inflight = {}

\* ------------------------------------------------------------------------
\* Properties of the labels (checked under SpecLabel)
\* ------------------------------------------------------------------------

\* what a probe yields: nothing (<<>>) when the thing probed is absent or
\* empty
Yield(v) == IF v = NULL THEN <<>> ELSE v

\* the first probe that yields something decides, in the order text,
\* aria-label, title, id; "unlabeled" when none does
ClaimedLabel(el) ==
    LET text == Trim(Yield(el.text))
        aria == Yield(el.aria)
        title == Trim(Yield(el.title))
    IN  IF text # <<>> THEN text
        ELSE IF aria # <<>> THEN aria
        ELSE IF title # <<>> THEN title
        ELSE IF el.id # <<>> THEN el.id
        ELSE Str_unlabeled

\* C20 as stated: label derivation. The label of a selected element is the
\* first non-empty value among its text content, its aria-label, its title
\* and its id, "unlabeled" if there is none, and is never empty.
C20_LabelAsStated ==
    (DragCompleted /\ selectedElements # <<>>) =>
        /\ selectedElements[1].label = ClaimedLabel(tree[1])
        /\ selectedElements[1].label # <<>>

\* ------------------------------------------------------------------------
\* Properties of the kinds (checked under SpecKind)
\* ------------------------------------------------------------------------

\* the kind named by the class attribute, NULL when no class pattern matches
ClassKind(el) ==
    IF TestWord(el.class, Str_node) THEN Str_node
    ELSE IF TestWord(el.class, Str_edge) \/ TestWord(el.class, Str_edgePath)
         THEN Str_edge
    ELSE IF TestWord(el.class, Str_label) \/ TestWord(el.class, Str_edgeLabel)
         THEN Str_label
    ELSE NULL

\* the kind named by the id, NULL when no heuristic applies
IdKind(el) ==
    IF StartsWith(el.id, Str_flowchartDash) \/ StartsWith(el.id, Str_state)
    THEN Str_node
    ELSE IF Includes(el.id, Str_edge) THEN Str_edge
    ELSE NULL

KindSet == {Str_node, Str_edge, Str_label, Str_unknown}

\* C21 as stated: element kind classification. Every selected element has
\* one kind of node, edge, label, unknown: the one its class names if a
\* class pattern matches, else the one its id names, else unknown.
C21_ClassificationAsStated ==
    (DragCompleted /\ selectedElements # <<>>) =>
        /\ selectedElements[1].type \in KindSet
        /\ selectedElements[1].type =
              OrElse(ClassKind(tree[1]),
                     OrElse(IdKind(tree[1]), Str_unknown))

\* ------------------------------------------------------------------------
\* Properties of the fullscreen toggle (checked under SpecFullscreen)
\* ------------------------------------------------------------------------

\* the handler of r resumes in this step
Resumed(r) == r \in displayRequests /\ r \notin displayRequests'

\* C22: unsupported fullscreen request. When the host rejects the request
\* the handler ends in its catch block and leaves the fullscreen flag, the
\* payload, the selection and the rendered tree as they were; no handler
\* lets an error escape; and a step of the handler changes the flag only
\* when it resumes after the host resolved the request.
C22_UnsupportedFullscreen ==
    /\ [][\A r \in displayRequests :
             (r.state = "rejected" /\ Resumed(r)) =>
                 /\ [r EXCEPT !.state = "warned"] \in displayRequests'
                 /\ UNCHANGED <<isFullscreen, diagramData, selectedElements,
                                tree, svg, error, highlighted>>]_vars
    /\ [](\A r \in displayRequests : r.state # "escaped")
    /\ [][(displayRequests' # displayRequests /\ isFullscreen' # isFullscreen)
            => \E r \in displayRequests :
                   r.state = "resolved" /\ Resumed(r)]_vars

\* a rejected request has been handled while a diagram with a selection is
\* shown inline
C22_Witness ==
    /\ \E r \in displayRequests : r.state = "warned"
    /\ ~isFullscreen
    /\ selectedElements # <<>>
    /\ tree # <<>>

\* ------------------------------------------------------------------------
\* Keyword precedence; classifier and gate (checked under SpecServer)
\* ------------------------------------------------------------------------

\* the tag detectDiagramType returns for each keyword, in the order of
\* KNOWN_DIAGRAM_KEYWORDS
KeywordTags ==
    <<T_flowchart, T_flowchart, T_sequenceDiagram, T_classDiagram,
      T_stateDiagram, T_erDiagram, T_gantt, T_pie, T_gitGraph,
      T_mindmap, T_timeline, T_journey, T_quadrantChart,
      T_requirementDiagram, T_c4, T_c4, T_c4,
      T_c4, T_c4, T_sankey, T_xyChart, T_block,
      T_packet, T_kanban, T_architecture>>

KeywordIndexes == 1..Len(KNOWN_DIAGRAM_KEYWORDS)

\* the normalised first line of the markup being answered
NormalisedLine == ToLowerCase(FirstLineOf(Markup))

\* the known keywords that are a prefix of a line
PrefixKeywords(line) ==
    {k \in KeywordIndexes : StartsWith(line, KNOWN_DIAGRAM_KEYWORDS[k])}

\* a longest keyword of a set of keywords
LongestKeyword(ks) ==
    CHOOSE k \in ks :
        \A j \in ks :
            Len(KNOWN_DIAGRAM_KEYWORDS[j]) <= Len(KNOWN_DIAGRAM_KEYWORDS[k])

\* no known keyword is a prefix of another
KeywordsPrefixFree ==
    \A i, j \in KeywordIndexes :
        i # j =>
            ~StartsWith(KNOWN_DIAGRAM_KEYWORDS[i], KNOWN_DIAGRAM_KEYWORDS[j])

\* C23: keyword precedence. No known keyword is a prefix of another, at
\* most one is a prefix of the normalised first line, and the tag returned
\* is the tag of the longest keyword that is a prefix of the line, "unknown"
\* when there is none, whatever the order of the checks.
C23_KeywordPrecedence ==
    /\ KeywordsPrefixFree
    /\ Answered =>
          LET matches == PrefixKeywords(NormalisedLine)
          IN  /\ Cardinality(matches) <= 1
              /\ Payload.diagramType =
                    IF matches = {} THEN T_unknown
                    ELSE KeywordTags[LongestKeyword(matches)]

\* a line starting with "gitgraph", which contains "graph", is answered
C23_Witness ==
    /\ Answered
    /\ StartsWith(NormalisedLine, kw_gitgraph)
    /\ Payload.diagramType = T_gitGraph
    /\ Markup # FirstLineOf(Markup)

\* C24: classifier and gate agree. For every markup detectDiagramType
\* returns "unknown" exactly when validateMermaidSyntax returns an error, so
\* no answer has a null error with type "unknown" and no rejected answer
\* carries a recognised type.
C24_ClassifierGateAgree ==
    Answered =>
        /\ detectDiagramType(Markup) = T_unknown
              <=> validateMermaidSyntax(Markup) # NULL
        /\ ReportedError = NULL => Payload.diagramType # T_unknown
        /\ ReportedError # NULL => Payload.diagramType = T_unknown

\* a line with a keyword inside it, not at its start, is rejected as unknown
C24_Witness ==
    /\ RenderAnswered
    /\ Payload.syntaxError # NULL
    /\ Payload.diagramType = T_unknown
    /\ Includes(NormalisedLine, kw_graph)

\* ------------------------------------------------------------------------
\* Selection and payload (checked under Spec)
\* ------------------------------------------------------------------------

\* the container holds the SVG rendered from the current payload
CurrentPayloadRendered ==
    /\ diagramData # <<>>
    /\ error = NULL
    /\ svg # <<>>
    /\ svg[1].markup = diagramData[1].markup
    /\ tree = EngineTree(diagramData[1].markup)

\* C25 as stated: selection belongs to the current payload. Whenever no
\* render is pending and the tree of the current payload is shown, every
\* selected id is the id of an element of that tree.
C25_SelectionCurrentAsStated ==
    (inflight = {} /\ CurrentPayloadRendered) =>
        \A id \in SelectedIds : \E i \in 1..Len(tree) : tree[i].id = id

============================================================================
